---- MODULE Spec2Model ----
(***************************************************************************)
(* A model of linguini-sim's lucky-imaging engine (src/lisim.py).          *)
(*                                                                         *)
(* Images are sequences of rows of integer pixel values; a 0-based numpy   *)
(* index (i, j) is the pair <<i, j>> and reads im[i+1][j+1].  Real numbers *)
(* that the code computes (centroids, half-pixel offsets) are exact        *)
(* rationals <<n, d>> in lowest terms, d > 0; <<0, 0>> is NaN.  The code   *)
(* is Python 2 (zip(...)[0], true division from __future__).               *)
(***************************************************************************)
EXTENDS Integers, Sequences, FiniteSets, TLC

\* ------------------------------------------------------------------ bounds
\* Longest frame stack handed to lucky_imaging.
MaxStack == 3
\* Largest pixel value of an input frame.
MaxPix == 1
\* Largest photon count, gain, noise magnitude and finite saturation level of
\* a synthesised frame.
MaxCount == 2
\* Bits in the significand of the floating-point numbers the pixel
\* arithmetic is carried out in (53 in float64).
MantissaBits == 3

\* ------------------------------------------------------- rational numbers
\* IEEE specials of a float64 division by zero: 0/0, +x/0, -x/0.
NaN == <<0, 0>>
PosInf == <<1, 0>>
NegInf == <<-1, 0>>

Abs(x) == IF x < 0 THEN -x ELSE x
Sign(x) == IF x < 0 THEN -1 ELSE IF x > 0 THEN 1 ELSE 0

RECURSIVE GCD(_, _)
GCD(a, b) == IF b = 0 THEN a ELSE GCD(b, a % b)

\* n / d as numpy's true division of two float64 numbers computes it
\* (a division by zero gives NaN or an infinity, never an exception).
Rat(n, d) ==
    IF d = 0 THEN <<Sign(n), 0>>
    ELSE LET g == GCD(Abs(n), Abs(d))
             s == IF d < 0 THEN -1 ELSE 1
         IN  <<(s * n) \div g, (s * d) \div g>>

IsNaN(q) == q = NaN
IsFinite(q) == q[2] # 0
RatInt(n) == <<n, 1>>
RatNeg(q) == <<-q[1], q[2]>>
RatSub(p, q) ==
    IF IsNaN(p) \/ IsNaN(q) THEN NaN
    ELSE IF IsFinite(p) /\ IsFinite(q)
         THEN Rat(p[1] * q[2] - q[1] * p[2], p[2] * q[2])
    ELSE IF IsFinite(q) THEN p
    ELSE IF IsFinite(p) THEN RatNeg(q)
    ELSE IF p = q THEN NaN ELSE p
RatIsInt(q) == q[2] = 1
\* p < q for two numbers that are not NaN.
RatLess(p, q) ==
    IF IsFinite(p) /\ IsFinite(q) THEN p[1] * q[2] < q[1] * p[2]
    ELSE IF IsFinite(p) THEN q = PosInf
    ELSE IF IsFinite(q) THEN p = NegInf
    ELSE p = NegInf /\ q = PosInf

\* p + q and q / n (n a positive integer) for finite p and q.
RatAdd(p, q) == Rat(p[1] * q[2] + q[1] * p[2], p[2] * q[2])
RatDivInt(q, n) == Rat(q[1], q[2] * n)

\* ------------------------------------------------- floating-point rounding
RECURSIVE Pow2(_)
Pow2(e) == IF e = 0 THEN 1 ELSE 2 * Pow2(e - 1)

\* n / d rounded to an integer, halves to the even neighbour.
RoundHalfEven(n, d) ==
    LET f == n \div d
        r == n % d
    IN  IF 2 * r < d THEN f
        ELSE IF 2 * r > d THEN f + 1
        ELSE IF f % 2 = 0 THEN f ELSE f + 1

\* The floating-point number nearest to n / d (n >= 0, d > 0): the quotient
\* is scaled by a power of two into [2^(MantissaBits-1), 2^MantissaBits),
\* rounded to an integer there, and scaled back.
RECURSIVE FloatOf(_, _)
FloatOf(n, d) ==
    IF n = 0 THEN RatInt(0)
    ELSE IF n >= d * Pow2(MantissaBits)
    THEN LET h == FloatOf(n, 2 * d) IN Rat(2 * h[1], h[2])
    ELSE IF n < d * Pow2(MantissaBits - 1)
    THEN LET h == FloatOf(2 * n, d) IN Rat(h[1], 2 * h[2])
    ELSE RatInt(RoundHalfEven(n, d))

\* The result of one floating-point operation whose exact value is q >= 0.
Float(q) == FloatOf(q[1], q[2])

\* ----------------------------------------------------------- shift vectors
\* A (row, column) vector.  fit lists the fitted Gaussian centres
\* (astropy LevMarLSQFitter results, a deterministic function of the fitted
\* data that the model does not evaluate) that are added to (row, col),
\* each with its sign.
Vec(r, c) == [row |-> r, col |-> c, fit |-> <<>>]
VecInt(v) == Vec(RatInt(v[1]), RatInt(v[2]))
FitTerm(sgn, data) == [sign |-> sgn, data |-> data]
VecFit(terms) == [row |-> RatInt(0), col |-> RatInt(0), fit |-> terms]
VecZero == Vec(RatInt(0), RatInt(0))
\* -v, component-wise.
VecNeg(v) ==
    [row |-> RatNeg(v.row), col |-> RatNeg(v.col),
     fit |-> [k \in 1..Len(v.fit) |-> FitTerm(-v.fit[k].sign, v.fit[k].data)]]
\* a - b for two vectors of plain numbers.
VecSub(a, b) == Vec(RatSub(a.row, b.row), RatSub(a.col, b.col))
VecIsInt(v) == v.fit = <<>> /\ RatIsInt(v.row) /\ RatIsInt(v.col)

\* ------------------------------------------------------------------ images
Height(im) == Len(im)
Width(im) == Len(im[1])
Shape(im) == <<Height(im), Width(im)>>
Pix(im, i, j) == im[i + 1][j + 1]
Images(h, w, vals) == [1..h -> [1..w -> vals]]
Zeros(h, w) == [i \in 1..h |-> [j \in 1..w |-> 0]]

\* image.flatten(): row-major (C order).
Flat(im, k) == Pix(im, k \div Width(im), k % Width(im))
Size(im) == Height(im) * Width(im)

\* The scans below walk the flat indices k, k+1, ... Size(im)-1 with the
\* running result in their last parameter.
RECURSIVE SumScan(_, _, _)
SumScan(im, k, acc) ==
    IF k = Size(im) THEN acc ELSE SumScan(im, k + 1, acc + Flat(im, k))

\* np.sum(image.flatten())
SumPixels(im) == SumScan(im, 0, 0)

RECURSIVE MaxScan(_, _, _)
MaxScan(im, k, best) ==
    IF k = Size(im) THEN best
    ELSE MaxScan(im, k + 1, IF Flat(im, k) > best THEN Flat(im, k) ELSE best)

\* max(image.flatten())
MaxPixel(im) == MaxScan(im, 1, Flat(im, 0))

\* An argmax that keeps the last of several equal maxima.
RECURSIVE ArgMaxScanLast(_, _, _)
ArgMaxScanLast(im, k, best) ==
    IF k = Size(im) THEN best
    ELSE ArgMaxScanLast(im, k + 1, IF Flat(im, k) >= Flat(im, best) THEN k ELSE best)

\* np.argmax(im): the flat index of the first maximum in row-major order.
RECURSIVE ArgMaxScan(_, _, _)
ArgMaxScan(im, k, best) ==
    IF k = Size(im) THEN best
    ELSE ArgMaxScan(im, k + 1, IF Flat(im, k) > Flat(im, best) THEN k ELSE best)

argmax(im) == ArgMaxScan(im, 1, 0)

\* np.unravel_index(k, shape)
unravel_index(k, shape) == <<k \div shape[2], k % shape[2]>>

\* np.asarray(np.unravel_index(np.argmax(im), im.shape))
peak_index(im) == unravel_index(argmax(im), Shape(im))

\* scipy.ndimage.interpolation.shift(image, d): the call is kept as a term;
\* Translate gives its pixels when d is a whole number of pixels (spline
\* interpolation then reproduces the samples, zero fill outside).
ndshift(image, d) == [src |-> image, by |-> d]

\* A displacement applied the other way round.
Translate_reversed(im, s0, s1) ==
    [i \in 1..Height(im) |-> [j \in 1..Width(im) |->
        IF i + s0 \in 1..Height(im) /\ j + s1 \in 1..Width(im)
        THEN im[i + s0][j + s1] ELSE 0]]

Translate(im, s0, s1) ==
    [i \in 1..Height(im) |-> [j \in 1..Width(im) |->
        IF i - s0 \in 1..Height(im) /\ j - s1 \in 1..Width(im)
        THEN im[i - s0][j - s1] ELSE 0]]

\* --------------------------------------------------- alignment strategies
\* What a shift function hands back: the shifted frame, the reported shift
\* and (peak pixel only) the peak value, or the exception it raised.
Returned(shifted, shift, peak) ==
    [raised |-> "", image_shifted |-> shifted, shift |-> shift, peak |-> peak]
Raised(exc) ==
    [raised |-> exc, image_shifted |-> [src |-> <<>>, by |-> VecZero],
     shift |-> VecZero, peak |-> 0]

\* shift_pp reporting the displacement it applied, not its negation.
shift_pp_unnegated(image, img_ref_peak_idx, fsr, bid_area) ==
    IF bid_area
    THEN Raised("NameError")
    ELSE LET rel_shift_idx == VecSub(VecInt(img_ref_peak_idx), VecInt(peak_index(image)))
         IN  Returned(ndshift(image, rel_shift_idx), rel_shift_idx, MaxPixel(image))

shift_pp(image, img_ref_peak_idx, fsr, bid_area) ==
    IF bid_area
    THEN \* rotateAndCrop(image_in_array = images, ...): images is not a
         \* name of this scope
         Raised("NameError")
    ELSE LET img_peak_idx == peak_index(image)
             rel_shift_idx == VecSub(VecInt(img_ref_peak_idx), VecInt(img_peak_idx))
         IN  Returned(ndshift(image, rel_shift_idx), VecNeg(rel_shift_idx),
                      MaxPixel(image))

\* centroid_threshold = 0.25, as the fraction CentroidThresholdNum /
\* CentroidThresholdDen.
CentroidThresholdNum == 1
CentroidThresholdDen == 4

\* image_subtracted_bg[image < centroid_threshold * max(image.flatten())] = 0
Threshold(image) ==
    LET m == MaxPixel(image)
    IN  [i \in 1..Height(image) |-> [j \in 1..Width(image) |->
            IF CentroidThresholdDen * image[i][j] < CentroidThresholdNum * m
            THEN 0 ELSE image[i][j]]]

\* np.sum((W * image).flatten()) from flat index k on; axis 0 weighs by
\* the row index (Y), axis 1 by the column index (X).
RECURSIVE Moment(_, _, _, _)
Moment(im, axis, k, acc) ==
    IF k = Size(im) THEN acc
    ELSE Moment(im, axis, k + 1,
                acc + (IF axis = 0 THEN k \div Width(im) ELSE k % Width(im))
                      * Flat(im, k))

_centroid(image) ==
    LET M_10 == Moment(image, 1, 0, 0)
        M_01 == Moment(image, 0, 0, 0)
        M_00 == SumPixels(image)
    IN  Vec(Rat(M_01, M_00), Rat(M_10, M_00))

\* shift_centroid reporting the displacement it applied, not its negation.
shift_centroid_unnegated(image, img_ref_peak_idx) ==
    LET rel_shift_idx == VecSub(img_ref_peak_idx, _centroid(Threshold(image)))
    IN  Returned(ndshift(image, rel_shift_idx), rel_shift_idx, 0)

shift_centroid(image, img_ref_peak_idx) ==
    LET image_subtracted_bg == Threshold(image)
        img_peak_idx == _centroid(image_subtracted_bg)
        rel_shift_idx == VecSub(img_ref_peak_idx, img_peak_idx)
    IN  Returned(ndshift(image, rel_shift_idx), VecNeg(rel_shift_idx), 0)

\* image - np.mean(image.flatten()), every value multiplied by the number
\* of pixels so that it stays a whole number (both operands of the
\* correlation have the same size, so the common factor changes no
\* comparison between correlation values).
MeanSubtracted(image) ==
    LET n == Size(image)
        t == SumPixels(image)
    IN  [i \in 1..Height(image) |-> [j \in 1..Width(image) |->
            n * image[i][j] - t]]

\* One value of scipy.signal.fftconvolve(a, b[::-1,::-1], 'same'): the sum
\* over the flat indices m >= k of a[m] * b[m + (h \div 2 - i0, w \div 2 - i1)]
\* (the full convolution's index i + (h-1) \div 2 is lag h \div 2 - i).
RECURSIVE CorrSum(_, _, _, _, _, _)
CorrSum(a, b, i0, i1, k, acc) ==
    IF k = Size(a) THEN acc
    ELSE LET n0 == (k \div Width(a)) + (Height(a) \div 2) - i0
             n1 == (k % Width(a)) + (Width(a) \div 2) - i1
         IN  CorrSum(a, b, i0, i1, k + 1,
                     acc + (IF n0 \in 0..(Height(b) - 1) /\ n1 \in 0..(Width(b) - 1)
                            THEN Flat(a, k) * Pix(b, n0, n1) ELSE 0))

\* A correlation whose 'same' window is cut one sample late, so that zero
\* lag sits at index (h-1) \div 2.
xcorr_same_offcentre(a, b) ==
    [i \in 1..Height(a) |-> [j \in 1..Width(a) |->
        CorrSum(a, b, (i - 1) + ((Height(a) + 1) % 2),
                (j - 1) + ((Width(a) + 1) % 2), 0, 0)]]

\* scipy.signal.fftconvolve(a, b[::-1,::-1], 'same'), computed exactly.
xcorr_same(a, b) ==
    [i \in 1..Height(a) |-> [j \in 1..Width(a) |->
        CorrSum(a, b, i - 1, j - 1, 0, 0)]]

\* corr /= max(corr.flatten()): the flat quotients, as float64 values.
Normalised(corr) ==
    CHOOSE q \in {[k \in 0..(Size(corr) - 1) |-> Rat(Flat(corr, k), mx)] :
                  mx \in {MaxPixel(corr)}} : TRUE

\* np.argmax(q) as float64 does it: the first NaN wins, otherwise the first
\* largest value.
argmax_float(q) ==
    IF \E k \in DOMAIN q : IsNaN(q[k])
    THEN CHOOSE k \in DOMAIN q : IsNaN(q[k]) /\ \A j \in DOMAIN q : j < k => ~IsNaN(q[j])
    ELSE CHOOSE k \in DOMAIN q :
            /\ \A j \in DOMAIN q : ~RatLess(q[k], q[j])
            /\ \A j \in DOMAIN q : j < k => RatLess(q[j], q[k])

\* np.unravel_index(np.argmax(corr), corr.shape) of the normalised corr
corr_peak(corr) ==
    CHOOSE p \in {unravel_index(argmax_float(q), Shape(corr)) :
                  q \in {Normalised(corr)}} : TRUE

\* The index of the peak of the normalised cross-correlation of the two
\* mean-subtracted images.  (Each intermediate array is bound once, as the
\* code's local variables are.)
xcorr_peak(image, image_ref) ==
    CHOOSE p \in {corr_peak(corr) :
                  corr \in {xcorr_same(r, a) :
                      r \in {MeanSubtracted(image_ref)},
                      a \in {MeanSubtracted(image)}}} : TRUE

\* Free parameters of astropy's Gaussian2D: amplitude, x_mean, y_mean,
\* x_stddev, y_stddev, theta.
FitParams == 6

\* fit_p = LevMarLSQFitter(); p_fit = fit_p(p_init, X, Y, data): the centre
\* (y_mean, x_mean) of the fitted Gaussian, a deterministic function of the
\* data that is kept as a term.  The fit is scipy's leastsq, which raises
\* TypeError ("Improper input: N must not exceed M") when the data hold
\* fewer points than the model has parameters.  No try encloses the call.
fit_p(npoints, data) ==
    IF npoints < FitParams
    THEN [raised |-> "TypeError", centre |-> VecZero]
    ELSE [raised |-> "", centre |-> VecFit(<<FitTerm(1, data)>>)]

\* The number of pixels of corr[buff:height-buff, buff:width-buff].
Cropped(height, width, buff) ==
    (IF height > 2 * buff THEN height - 2 * buff ELSE 0)
        * (IF width > 2 * buff THEN width - 2 * buff ELSE 0)

shift_xcorr(image, image_ref, buff_xcorr, sub_pixel_shift) ==
    LET height == Height(image)
        width == Width(image)
        p_fit == fit_p(Cropped(height, width, buff_xcorr),
                       <<"xcorr", image_ref, image, buff_xcorr>>)
        rel_shift_idx ==
            IF sub_pixel_shift
            THEN p_fit.centre
            ELSE CHOOSE v \in {Vec(Rat(2 * idx[1] - height, 2), Rat(2 * idx[2] - width, 2)) :
                               idx \in {xcorr_peak(image, image_ref)}} : TRUE
    IN  IF sub_pixel_shift /\ p_fit.raised # ""
        THEN Raised(p_fit.raised)
        ELSE CHOOSE r \in {Returned(ndshift(image, d), VecNeg(d), 0) :
                           d \in {rel_shift_idx}} : TRUE

\* _gaussfit_peak(image): the fit of a Gaussian2D to the whole image.
_gaussfit_peak(image) == fit_p(Size(image), <<"gauss", image>>)

shift_gaussfit(image, img_ref_peak_idx) ==
    LET image_subtracted_bg == MeanSubtracted(image)
        p_fit == _gaussfit_peak(image_subtracted_bg)
        peak_idx == p_fit.centre
        \* -(peak_idx - img_ref_peak_idx); equal fits cancel exactly
        rel_shift_idx ==
            IF peak_idx = img_ref_peak_idx THEN VecZero
            ELSE VecFit(img_ref_peak_idx.fit \o VecNeg(peak_idx).fit)
    IN  IF p_fit.raised # ""
        THEN Raised(p_fit.raised)
        ELSE Returned(ndshift(image, rel_shift_idx), VecNeg(rel_shift_idx), 0)

\* imutils.centre_crop(im, sz): the central sz[1] x sz[2] pixels of im.
centre_crop(im, sz) ==
    LET r0 == (Height(im) - sz[1]) \div 2
        c0 == (Width(im) - sz[2]) \div 2
    IN  [i \in 1..sz[1] |-> [j \in 1..sz[2] |-> im[r0 + i][c0 + j]]]

\* The reference coordinates lucky_imaging hands to the shift function.
\* bid_area is <<>> for None.
ref_peak_pp(image_ref, bid_area) ==
    LET sub_image_ref == IF bid_area # <<>> THEN centre_crop(image_ref, bid_area)
                         ELSE image_ref
    IN  peak_index(sub_image_ref)

ref_peak_centroid(image_ref) == _centroid(Threshold(image_ref))

ref_peak_gaussfit(image_ref) == _gaussfit_peak(MeanSubtracted(image_ref))

\* ------------------------------------------- Fourier amplitude selection
\* The pixels of a shifted frame whose displacement is a whole number of
\* pixels (the spline interpolation reproduces the samples, zero outside).
WholeShift(fr) == VecIsInt(fr.by)
shifted_pixels(fr) == Translate(fr.src, fr.by.row[1], fr.by.col[1])

\* A ramp that ends on the edge value and starts above 0.
linear_ramp_to_edge(edge, s, buff) == (edge * (s + 1)) \div buff
\* np.pad(..., mode = 'linear_ramp') of one axis: the s-th padded sample
\* counted from the outer edge, of a ramp of width buff from 0 to the edge
\* value (s = 0 .. buff - 1).
linear_ramp(edge, s, buff) == (edge * s) \div buff

\* edge_ramp(im, buff) for one frame: the central (h - 2 buff) x (w - 2 buff)
\* pixels, padded back to h x w, rows first and columns after.
edge_ramp(im, buff) ==
    LET h == Height(im)
        w == Width(im)
        c == centre_crop(im, <<h - 2 * buff, w - 2 * buff>>)
        rows == [i \in 1..h |-> [j \in 1..(w - 2 * buff) |->
                    IF i <= buff THEN linear_ramp(c[1][j], i - 1, buff)
                    ELSE IF i > h - buff
                    THEN linear_ramp(c[h - 2 * buff][j], h - i, buff)
                    ELSE c[i - buff][j]]]
    IN  IF buff = 0 THEN c
        ELSE [i \in 1..h |-> [j \in 1..w |->
                 IF j <= buff THEN linear_ramp(rows[i][1], j - 1, buff)
                 ELSE IF j > w - buff
                 THEN linear_ramp(rows[i][w - 2 * buff], w - j, buff)
                 ELSE rows[i][j - buff]]]

\* Complex numbers with integer parts, a + b i as <<a, b>>: the transform
\* values of integer frames whose sides are 1, 2 or 4.
CAdd(x, y) == <<x[1] + y[1], x[2] + y[2]>>
CMul(x, y) == <<x[1] * y[1] - x[2] * y[2], x[1] * y[2] + x[2] * y[1]>>
\* |x|^2
CNorm(x) == x[1] * x[1] + x[2] * x[2]
\* exp(-2 pi i e / n), e >= 0
Twiddle(n, e) ==
    LET q == ((4 \div n) * e) % 4
    IN  IF q = 0 THEN <<1, 0>> ELSE IF q = 1 THEN <<0, -1>>
        ELSE IF q = 2 THEN <<-1, 0>> ELSE <<0, 1>>
Transformable(im) == Height(im) \in {1, 2, 4} /\ Width(im) \in {1, 2, 4}

\* One value of fft2 (sign = 1) or of h * w * ifft2 (sign = -1) of the
\* array a of complex numbers, at the 0-based index (p, q): the sum over the
\* flat indices t, t + 1, ...
RECURSIVE dft_sum(_, _, _, _, _, _)
dft_sum(a, p, q, sign, t, acc) ==
    IF t = Height(a) * Width(a) THEN acc
    ELSE LET i == t \div Width(a)
             j == t % Width(a)
             ep == IF sign = 1 THEN p * i ELSE (Height(a) - p) * i
             eq == IF sign = 1 THEN q * j ELSE (Width(a) - q) * j
         IN  dft_sum(a, p, q, sign, t + 1,
                     CAdd(acc, CMul(a[i + 1][j + 1],
                                    CMul(Twiddle(Height(a), ep), Twiddle(Width(a), eq)))))
dft2(a, sign) ==
    [i \in 1..Height(a) |-> [j \in 1..Width(a) |->
        dft_sum(a, i - 1, j - 1, sign, 0, <<0, 0>>)]]

\* fftshift over both image axes: out[i] = in[(i - n \div 2) mod n].
fftshift(a) ==
    LET h == Height(a)
        w == Width(a)
    IN  [i \in 1..h |-> [j \in 1..w |->
            a[((i - 1 - h \div 2) % h) + 1][((j - 1 - w \div 2) % w) + 1]]]

\* fftshift(fft2(im)) of an integer frame.
image_fft(im) ==
    fftshift(dft2([i \in 1..Height(im) |-> [j \in 1..Width(im) |-> <<im[i][j], 0>>]], 1))

\* cutoff_freq_px = int(np.round(cutoff_freq_frac * min(h, w)))
cutoff_freq_px(frac, h, w) ==
    RoundHalfEven(frac[1] * (IF h < w THEN h ELSE w), frac[2])

\* uv_map at the 0-based index (i, j): U = -w/2 + j and V = -h/2 + i lie
\* within the cutoff radius (compared on 2U and 2V, which are integers).
uv_map(i, j, h, w, cutoff) ==
    (2 * j - w) * (2 * j - w) + (2 * i - h) * (2 * i - h) < 4 * cutoff * cutoff

\* np.argsort(vals): ascending, equal values in index order (the sort of a
\* short array is an insertion sort).
argsort(vals) ==
    LET rank(t) == Cardinality({u \in 1..Len(vals) :
                        vals[u] < vals[t] \/ (vals[u] = vals[t] /\ u < t)})
    IN  [r \in 1..Len(vals) |-> CHOOSE t \in 1..Len(vals) : rank(t) = r - 1]
\* sq[-m:]
last_m(sq, m) == IF m >= Len(sq) THEN sq ELSE SubSeq(sq, Len(sq) - m + 1, Len(sq))

\* floor(sqrt(n))
RECURSIVE IsqrtFrom(_, _)
IsqrtFrom(n, r) == IF (r + 1) * (r + 1) > n THEN r ELSE IsqrtFrom(n, r + 1)
\* np.abs of a transform value; exact where the value is real or imaginary,
\* as it is for every frame with sides of at most 2.
amplitude(x) == IsqrtFrom(CNorm(x), 0)

\* imutils.gaussian_smooth(im, sigma) of an amplitude array: every sample
\* becomes a positive mixture of itself and its neighbours, the sample itself
\* weighing twice a neighbour (kept unnormalised: only samples of the same
\* index are ever compared).
gaussian_smooth(amp) ==
    LET h == Len(amp)
        w == Len(amp[1])
        at(i, j) == IF i \in 1..h /\ j \in 1..w THEN amp[i][j] ELSE 0
    IN  [i \in 1..h |-> [j \in 1..w |->
            2 * amp[i][j] + at(i - 1, j) + at(i + 1, j) + at(i, j - 1) + at(i, j + 1)]]

\* images_fft_amp for one frame: np.abs(images_fft[t]), smoothed when
\* sigma_kernel is not 0.  Without smoothing the squared amplitude stands
\* for the amplitude: it orders the frames the same way and is exact.
images_fft_amp(ft, sigma_kernel) ==
    IF sigma_kernel = 0
    THEN [i \in 1..Len(ft) |-> [j \in 1..Len(ft[1]) |-> CNorm(ft[i][j])]]
    ELSE gaussian_smooth([i \in 1..Len(ft) |-> [j \in 1..Len(ft[1]) |-> amplitude(ft[i][j])]])

\* buff_xcorr = 25 (default)
BuffXcorr == 25
\* The values of buff_xcorr the calls pass: none, and the default.
Buffs == {0, BuffXcorr}

\* ======================================================================
\* Single-frame alignment: one reference, one candidate frame, one
\* strategy applied to it.
\* ======================================================================
VARIABLES reference, frame, strategy, estimate, apc

\* One call of one of the other functions: its name, its arguments and what
\* it returned or raised.
VARIABLES fn, args, ret

unitVars == <<fn, args, ret>>
alignVars == <<reference, frame, strategy, estimate, apc, unitVars>>

\* The state of a lucky_imaging call (the specification Spec below).
VARIABLES
    stack,          \* the caller's images array: [ndim, frames]
    ref_arg,        \* the caller's image_ref; <<>> is None
    N_arg,          \* the caller's N; 0 is None
    opts,           \* li_method, stacking_method, fsr, bid_area, ...
    outcome,        \* per mode: what the call returned or raised
    pc,             \* position in the current call
    mode,           \* the current call's mode
    images,         \* locals of lucky_imaging ...
    image_ref,
    N,
    img_ref_peak_idx,
    k,
    pending,        \* frames handed to the pool and not yet mapped
    results,        \* per-frame results: the pool's result list, or the
                    \* rows the serial loop has filled
    calls,          \* shift-function invocations begun in this call
    mem,            \* what the caller's two arrays hold now
    handles         \* the arrays the locals images and image_ref refer to

heapVars == <<mem, handles>>
callVars == <<stack, ref_arg, N_arg, opts, outcome, pc, mode, images, image_ref,
              N, img_ref_peak_idx, k, pending, results, calls, heapVars, unitVars>>

\* An array of a call is the caller's images, the caller's image_ref, or one
\* made during the call.
NoHandles == [images |-> "none", image_ref |-> "none"]
\* A copy that is the array itself.
np_copy_view(h) == h
\* np.copy(a): a new array.
np_copy(h) == "fresh"
\* a.astype(np.float64) of an array that is not float64 already; an array
\* that is stays the one it was.
astype(h, float64) == IF float64 THEN h ELSE "fresh"
\* a[...] = data, for the array behind a handle; row is the frame of a
\* stack that is written (1-based), the whole of an image.
store(m, h, row, data) ==
    IF h = "images" THEN [m EXCEPT !.images[row] = data]
    ELSE IF h = "image_ref" THEN [m EXCEPT !.image_ref = data]
    ELSE m
\* image_subtracted_bg = np.copy(image), then the pixels under the
\* threshold of it are set to 0.
thresholded(m, h, row, im) == store(m, np_copy(h), row, Threshold(im))
\* images.tolist(): the frames as new lists.
tolist(h) == "fresh"
\* The caller's arrays as passed.
HeapInit == mem = [images |-> stack.frames, image_ref |-> ref_arg] /\ handles = NoHandles
\* No call of lucky_imaging.
HeapOff == mem = <<>> /\ handles = <<>>

\* No other function has been called.
UnitIdle == fn = "none" /\ args = <<>> /\ ret = <<>>

vars == <<callVars, alignVars>>


\* Frame shapes (height, width) of the single-frame specification.
AlignShapes == {<<2, 2>>, <<1, 3>>, <<3, 1>>}
\* A wider shape, with two-level frames.
WideShapes == {<<2, 3>>}
Pixels == 0..MaxPix
BidAreas == {<<>>, <<1, 1>>}
NoEstimate == Raised("pending")

AlignInit ==
    /\ \/ \E sh \in AlignShapes :
             /\ reference \in Images(sh[1], sh[2], Pixels)
             /\ frame \in Images(sh[1], sh[2], Pixels)
       \/ \E sh \in WideShapes :
             /\ reference \in Images(sh[1], sh[2], {0, 1})
             /\ frame \in Images(sh[1], sh[2], {0, 1})
    /\ strategy = "none"
    /\ estimate = NoEstimate
    /\ apc = "ready"
    /\ stack = <<>> /\ ref_arg = <<>> /\ N_arg = 0 /\ opts = <<>> /\ outcome = <<>>
    /\ pc = "off" /\ mode = "none" /\ images = <<>> /\ image_ref = <<>> /\ N = 0
    /\ img_ref_peak_idx = <<>> /\ k = 0 /\ pending = {} /\ results = <<>>
    /\ calls = 0
    /\ HeapOff
    /\ UnitIdle

AlignPeakPixel ==
    /\ apc = "ready"
    /\ \E bid_area \in BidAreas :
          /\ strategy' = (IF bid_area = <<>> THEN "peak pixel" ELSE "peak pixel bid")
          /\ estimate' = shift_pp(frame, ref_peak_pp(reference, bid_area), 1,
                                  bid_area # <<>>)
    /\ apc' = "done"
    /\ UNCHANGED <<reference, frame, callVars>>

AlignCentroid ==
    /\ apc = "ready"
    /\ strategy' = "centroid"
    /\ estimate' = shift_centroid(frame, ref_peak_centroid(reference))
    /\ apc' = "done"
    /\ UNCHANGED <<reference, frame, callVars>>

AlignXcorr ==
    /\ apc = "ready"
    /\ \E sub_pixel_shift \in BOOLEAN, buff_xcorr \in Buffs :
          /\ strategy' = (IF sub_pixel_shift THEN "xcorr fit" ELSE "xcorr")
          /\ estimate' = shift_xcorr(frame, reference, buff_xcorr, sub_pixel_shift)
    /\ apc' = "done"
    /\ UNCHANGED <<reference, frame, callVars>>

AlignGaussfit ==
    /\ apc = "ready"
    /\ strategy' = "gaussian fit"
    /\ estimate' = (IF ref_peak_gaussfit(reference).raised # ""
                    THEN Raised(ref_peak_gaussfit(reference).raised)
                    ELSE shift_gaussfit(frame, ref_peak_gaussfit(reference).centre))
    /\ apc' = "done"
    /\ UNCHANGED <<reference, frame, callVars>>

AlignNext == AlignPeakPixel \/ AlignCentroid \/ AlignXcorr \/ AlignGaussfit

SpecAlign == AlignInit /\ [][AlignNext]_vars

\* ======================================================================
\* lucky_imaging: one frame stack and option set, handed to lucky_imaging
\* once in every execution mode.
\* ======================================================================
\* Frame shape of the stacks.
StackShape == <<1, 2>>
Frames == Images(StackShape[1], StackShape[2], Pixels)
\* A reference of another shape.
MismatchedRef == Zeros(StackShape[1] + 1, StackShape[2])
\* Two frames with enough pixels for a Gaussian fit: a bright pixel, and the
\* same one column further.
WideFrames == {<<<<0, 1, 0>>, <<0, 0, 0>>>>, <<<<0, 0, 1>>, <<0, 0, 0>>>>}

RECURSIVE SeqsUpTo(_, _)
\* All sequences over S of length 1..n.
SeqsUpTo(S, n) ==
    IF n = 0 THEN {} ELSE SeqsUpTo(S, n - 1) \cup [1..n -> S]

Modes == <<"serial", "parallel", "threaded">>

FsrOne == <<1, 1>>
FsrHalf == <<1, 2>>
\* buff_fas = 32 (default)
BuffFas == 32

Opt(method, stacking, fsr, bid_area, sub_pixel_shift, timeit, float_index) ==
    [li_method |-> method, stacking_method |-> stacking, fsr |-> fsr,
     bid_area |-> bid_area, sub_pixel_shift |-> sub_pixel_shift,
     buff_xcorr |-> BuffXcorr,
     buff_fas |-> BuffFas, cutoff_freq_frac |-> FsrOne, sigma_kernel |-> 0,
     use_vals_outside_cutoff_freq |-> TRUE,
     timeit |-> timeit,
     \* whether this numpy build still takes a float as a slice bound
     \* (a DeprecationWarning before 1.12, a TypeError from 1.12 on)
     float_index |-> float_index]

StackingMethods == {"average", "median combine"}

\* The option sets: each method with the options it reads.
Options ==
    {Opt("Peak Pixel", st, FsrOne, b, TRUE, TRUE, TRUE) :
        st \in StackingMethods, b \in BidAreas}
    \cup {Opt("peak pixel", st, FsrHalf, <<>>, TRUE, t, f) :
        st \in StackingMethods, t \in BOOLEAN, f \in BOOLEAN}
    \cup {Opt("centroid", st, FsrOne, <<>>, TRUE, TRUE, TRUE) : st \in StackingMethods}
    \cup {Opt("cross-correlation", st, FsrOne, <<>>, sp, TRUE, TRUE) :
        st \in StackingMethods, sp \in BOOLEAN}
    \cup {[Opt("cross-correlation", st, FsrOne, <<>>, TRUE, TRUE, TRUE)
              EXCEPT !.buff_xcorr = 0] : st \in StackingMethods}
    \cup {Opt("gaussian fit", st, FsrOne, <<>>, TRUE, TRUE, TRUE) : st \in StackingMethods}
    \cup {Opt("blind stack", st, FsrOne, <<>>, TRUE, TRUE, TRUE) : st \in StackingMethods}
    \cup {[Opt("fas", "average", FsrOne, <<>>, FALSE, TRUE, TRUE) EXCEPT !.buff_fas = 0],
          Opt("drizzle", "average", FsrOne, <<>>, TRUE, TRUE, TRUE)}

\* A lower() that falls back on a default method for a name it does not know.
Lower_defaulting(m) ==
    IF m = "Peak Pixel" THEN "peak pixel"
    ELSE IF m = "drizzle" THEN "blind stack"
    ELSE m
\* li_method.lower()
Lower(m) == IF m = "Peak Pixel" THEN "peak pixel" ELSE m

\* A stacked image, kept as the combination the code computes:
\* (image_ref + sum(frames)) / div under "average", the per-pixel median of
\* image_ref and the frames under "median combine" (div is 0 there), the
\* Fourier amplitude selection of the frames keeping div of them under
\* "fas".  A frame is the term of its interpolating shift; a frame used as
\* it is is written as displaced by zero.
Stacked(rule, ref, frames, div) ==
    [rule |-> rule, ref |-> ref, frames |-> frames, div |-> div]
NoImage == Stacked("none", <<>>, <<>>, 0)
Unshifted(frames) == [i \in 1..Len(frames) |-> ndshift(frames[i], VecZero)]

\* What a call came to.  aligned counts the shift-function invocations it
\* began, stacked tells whether it computed a stacked image.
NotRun ==
    [status |-> "notrun", exc |-> "", image |-> NoImage, shifts |-> <<>>,
     aligned |-> 0, stacked |-> FALSE]
HasReturned(image_stacked, rel_shift_idxs, n) ==
    [status |-> "returned", exc |-> "", image |-> image_stacked,
     shifts |-> rel_shift_idxs, aligned |-> n, stacked |-> TRUE]
HasRaised(exc, n, st) ==
    [status |-> "raised", exc |-> exc, image |-> NoImage, shifts |-> <<>>,
     aligned |-> n, stacked |-> st]

NoPeak == <<0, 0>>

\* Frames of one row with a pixel that is positive and under
\* centroid_threshold times the largest.
DimFrames ==
    {<<<<1, CentroidThresholdDen + 1>>>>, <<<<CentroidThresholdDen + 1, 1>>>>}

Init ==
    /\ \/ /\ stack \in {[ndim |-> 3, frames |-> fs, float64 |-> TRUE] :
                          fs \in {<<>>} \cup SeqsUpTo(Frames, MaxStack)}
          /\ ref_arg \in {<<>>, MismatchedRef} \cup Frames
          \* N: 0 stands for None, which `not N` takes it for
          /\ N_arg \in 0..MaxStack
       \/ /\ stack \in {[ndim |-> 3, frames |-> fs, float64 |-> f64] :
                          fs \in SeqsUpTo(WideFrames, MaxStack), f64 \in BOOLEAN}
          /\ ref_arg \in {<<>>} \cup WideFrames
          /\ N_arg \in 0..MaxStack
       \/ \* frames with a pixel under the centroid threshold
          /\ stack \in {[ndim |-> 3, frames |-> fs, float64 |-> f64] :
                          fs \in SeqsUpTo(DimFrames, MaxStack - 1), f64 \in BOOLEAN}
          /\ ref_arg \in {<<>>} \cup DimFrames
          /\ N_arg \in 0..(MaxStack - 1)
       \/ \* a single 2D image
          /\ stack \in {[ndim |-> 2, frames |-> <<f>>, float64 |-> TRUE] : f \in Frames}
          /\ ref_arg = <<>>
          /\ N_arg = 0
    /\ opts \in Options
    /\ outcome = [m \in {Modes[i] : i \in 1..Len(Modes)} |-> NotRun]
    /\ pc = "idle"
    /\ mode = "none"
    /\ images = <<>>
    /\ image_ref = <<>>
    /\ N = 0
    /\ img_ref_peak_idx = NoPeak
    /\ k = 0
    /\ pending = {}
    /\ results = <<>>
    /\ calls = 0
    /\ HeapInit
    /\ reference = <<>>
    /\ frame = <<>>
    /\ strategy = "none"
    /\ estimate = NoEstimate
    /\ apc = "off"
    /\ UnitIdle

inputVars == <<stack, ref_arg, N_arg, opts>>

\* The call ends: its result is recorded and the locals are dropped.
Finish(res) ==
    /\ outcome' = [outcome EXCEPT ![mode] = res]
    /\ pc' = "idle"
    /\ images' = <<>>
    /\ image_ref' = <<>>
    /\ N' = 0
    /\ img_ref_peak_idx' = NoPeak
    /\ k' = 0
    /\ pending' = {}
    /\ results' = <<>>
    /\ handles' = NoHandles

\* lucky_imaging(images, li_method, mode = m, ...), the modes in turn.
Call ==
    /\ pc = "idle"
    /\ \E i \in 1..Len(Modes) :
          /\ outcome[Modes[i]].status = "notrun"
          /\ \A j \in 1..(i - 1) : outcome[Modes[j]].status # "notrun"
          /\ mode' = Modes[i]
    /\ pc' = "check"
    /\ calls' = 0
    /\ UNCHANGED <<inputVars, mem, outcome, images, image_ref, handles, N, img_ref_peak_idx, k,
                   pending, results, alignVars>>

\* images[a:] with the frame at a - 1 left in.
Drop_keeping(sq, a) == SubSeq(sq, a, Len(sq))
\* images[a:] of a sequence, 0-based.
Drop(sq, a) == SubSeq(sq, a + 1, Len(sq))

\* images, image_ref, N = _li_error_check(images, image_ref, N)
ErrorCheck ==
    /\ pc = "check"
    /\ IF stack.frames = <<>>
       THEN \* images.flatten()[0] of an empty array
            Finish(HasRaised("IndexError", calls, FALSE)) /\ UNCHANGED calls
       ELSE IF stack.ndim = 3
       THEN IF N_arg # 0 /\ N_arg > Len(stack.frames)
            THEN Finish(HasRaised("UserWarning", calls, FALSE)) /\ UNCHANGED calls
            ELSE IF ref_arg = <<>>
            THEN /\ N' = (IF N_arg = 0 THEN Len(stack.frames) - 1 ELSE N_arg)
                 /\ image_ref' = stack.frames[1]
                 /\ images' = Drop(stack.frames, 1)
                 /\ handles' = [images |-> np_copy(astype("images", stack.float64)),
                                image_ref |-> np_copy(astype("images", stack.float64))]
                 /\ pc' = "dispatch"
                 /\ UNCHANGED <<outcome, img_ref_peak_idx, k, pending, results, calls>>
            ELSE IF Shape(ref_arg) # Shape(stack.frames[1])
            THEN Finish(HasRaised("UserWarning", calls, FALSE)) /\ UNCHANGED calls
            ELSE /\ N' = (IF N_arg = 0 THEN Len(stack.frames) ELSE N_arg)
                 /\ image_ref' = ref_arg
                 /\ images' = stack.frames
                 /\ handles' = [images |-> astype("images", stack.float64),
                                image_ref |-> astype("image_ref", stack.float64)]
                 /\ pc' = "dispatch"
                 /\ UNCHANGED <<outcome, img_ref_peak_idx, k, pending, results, calls>>
       ELSE Finish(HasRaised("UserWarning", calls, FALSE)) /\ UNCHANGED calls
    /\ UNCHANGED <<inputVars, mem, mode, alignVars>>

\* An average that divides by the number of frames, the reference not counted.
Combine_undivided(stacking_method, ref, frames, n) ==
    IF stacking_method = "median combine"
    THEN Stacked("median combine", ref, frames, 0)
    ELSE Stacked("average", ref, frames, n)
\* The stacking of a reference and a list of frames under stacking_method.
Combine(stacking_method, ref, frames, n) ==
    IF stacking_method = "median combine"
    THEN Stacked("median combine", ref, frames, 0)
    ELSE Stacked("average", ref, frames, n + 1)

\* A shift array with a row less than asked for.
zero_shifts_short(n) == [i \in 1..(n - 1) |-> VecZero]
\* rel_shift_idxs = np.zeros((N, 2))
zero_shifts(n) == [i \in 1..n |-> VecZero]

\* The pixels of a frame term whose displacement is zero.
frame_pixels(fr) == fr.src

\* np.sum(frames, axis = 0) at pixel (i, j): the frames are added one after
\* the other, every addition rounded.
RECURSIVE sum_axis0(_, _, _, _, _)
sum_axis0(frames, i, j, t, acc) ==
    IF t > Len(frames) THEN acc
    ELSE sum_axis0(frames, i, j, t + 1,
                   Float(RatAdd(acc, RatInt(frame_pixels(frames[t])[i][j]))))

\* obssim.median_combine at one pixel: the median of the values vs (np.median
\* along the stack axis): the middle one, or the mean of the two middle ones.
median_combine(vs) ==
    LET n == Len(vs)
        rank(t) == Cardinality({u \in 1..n : vs[u] < vs[t] \/ (vs[u] = vs[t] /\ u < t)})
        at(r) == vs[CHOOSE t \in 1..n : rank(t) = r]
    IN  IF n % 2 = 1 THEN RatInt(at((n - 1) \div 2))
        ELSE Float(RatDivInt(Float(RatInt(at(n \div 2 - 1) + at(n \div 2))), 2))

\* The pixel values of a stacked image whose frames are all displaced by
\* zero: (image_ref + np.sum(frames, axis = 0)) / div, or the median.
stacked_pixels(st) ==
    [i \in 1..Height(st.ref) |-> [j \in 1..Width(st.ref) |->
        IF st.rule = "average"
        THEN Float(RatDivInt(
                 Float(RatAdd(RatInt(st.ref[i][j]),
                              sum_axis0(st.frames, i, j, 1, RatInt(0)))),
                 st.div))
        ELSE median_combine(<<st.ref[i][j]>> \o
                 [t \in 1..Len(st.frames) |-> frame_pixels(st.frames[t])[i][j]])]]

\* img_ref_peak_idx of the method o.li_method for the reference ref.
ref_peak(o, ref) ==
    IF Lower(o.li_method) = "gaussian fit" THEN ref_peak_gaussfit(ref).centre
    ELSE IF Lower(o.li_method) = "peak pixel" THEN ref_peak_pp(ref, o.bid_area)
    ELSE IF Lower(o.li_method) = "centroid" THEN ref_peak_centroid(ref)
    ELSE NoPeak

\* shift_fun: the partial application the method branch builds, its bound
\* arguments written out (the options o, the reference ref and its
\* coordinates peak), applied to the frame im.
shift_fun(o, ref, peak, im) ==
    IF Lower(o.li_method) = "peak pixel"
    THEN shift_pp(im, peak, o.fsr, o.bid_area # <<>>)
    ELSE IF Lower(o.li_method) = "centroid"
    THEN shift_centroid(im, peak)
    ELSE IF Lower(o.li_method) = "gaussian fit"
    THEN shift_gaussfit(im, peak)
    ELSE shift_xcorr(im, ref, o.buff_xcorr, o.sub_pixel_shift)

\* The method branch: the shift function and its reference coordinates, the
\* whole of a blind stack, or the error of an unknown method.
Dispatch ==
    /\ pc = "dispatch"
    /\ LET li_method == Lower(opts.li_method)
       IN  IF li_method \in {"cross-correlation", "fas", "fourier amplitude selection"}
           THEN /\ img_ref_peak_idx' = NoPeak
                /\ pc' = "mode"
                /\ UNCHANGED <<outcome, images, image_ref, handles, N, k, pending, results>>
           ELSE IF li_method = "gaussian fit" /\ ref_peak_gaussfit(image_ref).raised # ""
           THEN \* the fit of the reference raises
                Finish(HasRaised(ref_peak_gaussfit(image_ref).raised, calls, FALSE))
           ELSE IF li_method \in {"gaussian fit", "peak pixel", "centroid"}
           THEN /\ img_ref_peak_idx' = ref_peak(opts, image_ref)
                /\ pc' = "mode"
                /\ UNCHANGED <<outcome, images, image_ref, handles, N, k, pending, results>>
           ELSE IF li_method = "blind stack"
           THEN Finish(HasReturned(
                    Combine(opts.stacking_method, image_ref, Unshifted(images), N),
                    zero_shifts(N), calls))
           ELSE Finish(HasRaised("UserWarning", calls, FALSE))
    /\ mem' = (IF Lower(opts.li_method) = "centroid"
               THEN thresholded(mem, handles.image_ref, 1, image_ref)
               ELSE mem)
    /\ UNCHANGED <<inputVars, mode, calls, alignVars>>

\* What the shift function leaves in the arrays by writing into the frame
\* it was given, or into its copy of it.
after_shift(o, m, h, row, im) ==
    IF Lower(o.li_method) = "centroid" THEN thresholded(m, h, row, im) ELSE m

\* mode == 'parallel': images.tolist() goes to pool.map, every frame of it.
StartPool ==
    /\ pc = "mode" /\ mode = "parallel"
    /\ pending' = 1..Len(images)
    /\ results' = [i \in 1..Len(images) |-> NoEstimate]
    /\ pc' = "pool"
    /\ UNCHANGED <<inputVars, mem, outcome, mode, images, image_ref, handles, N, img_ref_peak_idx,
                   k, calls, alignVars>>

\* A pool worker maps one frame; an exception in it ends the map.
Worker ==
    /\ pc = "pool"
    /\ \E i \in pending :
          \E r \in {shift_fun(opts, image_ref, img_ref_peak_idx, images[i])} :
             /\ mem' = after_shift(opts, mem, tolist(handles.images), i, images[i])
             /\ IF r.raised # ""
                THEN Finish(HasRaised(r.raised, calls + 1, FALSE))
                ELSE /\ results' = [results EXCEPT ![i] = r]
                     /\ pending' = pending \ {i}
                     /\ UNCHANGED <<outcome, pc, images, image_ref, handles, N,
                                    img_ref_peak_idx, k>>
    /\ calls' = calls + 1
    /\ UNCHANGED <<inputVars, mode, alignVars>>

\* A join that does not wait for the workers.
PoolJoin_early ==
    /\ pc = "pool"
    /\ IF results = <<>>
       THEN Finish(HasRaised("IndexError", calls, FALSE))
       ELSE /\ pc' = "stack"
            /\ UNCHANGED <<outcome, images, image_ref, handles, N, img_ref_peak_idx, k,
                           pending, results>>
    /\ UNCHANGED <<inputVars, mem, mode, calls, alignVars>>
\* pool.join(), then zip(*results)[0]: an empty result list has no [0].
PoolJoin ==
    /\ pc = "pool" /\ pending = {}
    /\ IF results = <<>>
       THEN Finish(HasRaised("IndexError", calls, FALSE))
       ELSE /\ pc' = "stack"
            /\ UNCHANGED <<outcome, images, image_ref, handles, N, img_ref_peak_idx, k,
                           pending, results>>
    /\ UNCHANGED <<inputVars, mem, mode, calls, alignVars>>

\* mode == 'serial': N rows of zeros, then the loop over range(N).
SerialInit ==
    /\ pc = "mode" /\ mode = "serial"
    /\ results' = <<>>
    /\ k' = 0
    /\ pc' = (IF N = 0 THEN "stack" ELSE "serial")
    /\ UNCHANGED <<inputVars, mem, outcome, mode, images, image_ref, handles, N, img_ref_peak_idx,
                   pending, calls, alignVars>>

\* One turn of the serial loop: shift_fun(image=images[k]).
SerialStep ==
    /\ pc = "serial"
    /\ IF k >= Len(images)
       THEN \* images[k]: index out of bounds
            Finish(HasRaised("IndexError", calls, FALSE)) /\ UNCHANGED <<calls, mem>>
       ELSE /\ calls' = calls + 1
            /\ mem' = after_shift(opts, mem, handles.images, k + 1, images[k + 1])
            /\ \E r \in {shift_fun(opts, image_ref, img_ref_peak_idx, images[k + 1])} :
                  IF r.raised # ""
                  THEN Finish(HasRaised(r.raised, calls + 1, FALSE))
                  ELSE /\ results' = Append(results, r)
                       /\ k' = k + 1
                       /\ pc' = (IF k + 1 = N THEN "stack" ELSE "serial")
                       /\ UNCHANGED <<outcome, images, image_ref, handles, N,
                                      img_ref_peak_idx, pending>>
    /\ UNCHANGED <<inputVars, mode, alignVars>>

\* Any other mode.
BadMode ==
    /\ pc = "mode" /\ mode \notin {"parallel", "serial"}
    /\ Finish(HasRaised("UserWarning", calls, FALSE))
    /\ UNCHANGED <<inputVars, mem, mode, calls, alignVars>>

\* np.argsort(vals)[::-1]: the 1-based positions of vals by falling value;
\* equal values keep their rising order in argsort (arrays this short are
\* insertion-sorted), so they fall in the reversal.
argsort_reversed(vals) ==
    LET rank(i) == Cardinality({j \in 1..Len(vals) :
                        vals[j] > vals[i] \/ (vals[j] = vals[i] /\ j > i)})
    IN  [r \in 1..Len(vals) |-> CHOOSE i \in 1..Len(vals) : rank(i) = r - 1]

\* np.ceil(fsr * n)
CeilTimes(fsr, n) == (fsr[1] * n + fsr[2] - 1) \div fsr[2]

\* max(1, int(np.round(fsr * n))), rounding half to even
N_frames_to_keep(fsr, n) ==
    LET twice == (2 * fsr[1] * n) \div fsr[2]
        exact == (2 * fsr[1] * n) % fsr[2] = 0
        fl == twice \div 2
        rounded == IF twice % 2 = 0 THEN fl
                   ELSE IF ~exact THEN fl + 1
                   ELSE IF fl % 2 = 0 THEN fl ELSE fl + 1
    IN  IF rounded < 1 THEN 1 ELSE rounded

\* Frame selection and stacking, the closing print and the return.
\* The sum of the transform values vals[t] of the frames t listed in idxs.
RECURSIVE sum_kept(_, _, _, _)
sum_kept(vals, idxs, t, acc) ==
    IF t > Len(idxs) THEN acc
    ELSE sum_kept(vals, idxs, t + 1, CAdd(acc, vals[idxs[t]]))

\* The stages of the Fourier amplitude selection, each handing the arrays it
\* computed to the next.  Last: image_stacked, as mag2, the squared magnitude
\* of h * w * ifft2(fftshift(fft_sum)); the stacked image is
\* sqrt(mag2) / (h * w * div).
fas_inverse(ref, ramped, keep, sel, fft_sum) ==
    CHOOSE im \in
        {[rule |-> "fas", ref |-> ref, frames |-> ramped, div |-> keep,
          sel |-> sel, fft_sum |-> fft_sum,
          mag2 |-> [i \in 1..Height(ref) |-> [j \in 1..Width(ref) |->
                       CNorm(back[i][j])]]] :
            back \in {dft2(fftshift(fft_sum), -1)}} : TRUE

\* fft_sum: at every index the sum of the values of the frames kept there.
fas_sum(ref, ramped, keep, images_fft, sel) ==
    CHOOSE im \in
        {fas_inverse(ref, ramped, keep, sel, fft_sum) :
            fft_sum \in {[i \in 1..Height(ref) |-> [j \in 1..Width(ref) |->
                sum_kept([t \in 1..Len(ramped) |-> images_fft[t][i][j]],
                         sel[i][j], 1, <<0, 0>>)]]}} : TRUE

\* sel: within the cutoff radius the keep frames of largest (smoothed)
\* amplitude at the index, outside it the keep frames of largest peak pixel,
\* or none.
fas_select(ref, ramped, keep, o, images_fft) ==
    LET h == Height(ref)
        w == Width(ref)
        cutoff == cutoff_freq_px(o.cutoff_freq_frac, h, w)
    IN  CHOOSE im \in
        {fas_sum(ref, ramped, keep, images_fft,
             [i \in 1..h |-> [j \in 1..w |->
                 IF uv_map(i - 1, j - 1, h, w, cutoff)
                 THEN last_m(argsort([t \in 1..Len(ramped) |-> amps[t][i][j]]), keep)
                 ELSE IF o.use_vals_outside_cutoff_freq
                 THEN last_m(argsort(max_pixel_vals), keep)
                 ELSE <<>>]]) :
            amps \in {[t \in 1..Len(ramped) |->
                         images_fft_amp(images_fft[t], o.sigma_kernel)]},
            max_pixel_vals \in {[t \in 1..Len(ramped) |-> MaxPixel(ramped[t])]}} : TRUE

\* images_fft of the ramped frames.
fas_transform(ref, ramped, keep, o) ==
    CHOOSE im \in
        {fas_select(ref, ramped, keep, o, images_fft) :
            images_fft \in {[t \in 1..Len(ramped) |-> image_fft(ramped[t])]}} : TRUE

\* The Fourier amplitude selection of the aligned frames.  Frames displaced
\* by a fraction of a pixel, or with a side that is not 1, 2 or 4, leave the
\* image a term.
fas(ref, shifted, n, o) ==
    IF ~(Transformable(ref) /\ \A t \in 1..Len(shifted) : WholeShift(shifted[t]))
    THEN Stacked("fas", ref, shifted, N_frames_to_keep(o.fsr, n))
    ELSE CHOOSE im \in
        {fas_transform(ref, ramped, N_frames_to_keep(o.fsr, n), o) :
            ramped \in {[t \in 1..Len(shifted) |->
                           edge_ramp(shifted_pixels(shifted[t]), o.buff_fas)]}} : TRUE

\* The exceptions of a numpy that takes no float as an index: IndexError at
\* the first index within the cutoff radius; before that, where values
\* outside it are used, the bare except around them (454-457) stops the call
\* in the debugger.
fas_index_errors(ref, o) ==
    LET h == Height(ref)
        w == Width(ref)
        cutoff == cutoff_freq_px(o.cutoff_freq_frac, h, w)
        within == {ij \in (0..(h - 1)) \X (0..(w - 1)) : uv_map(ij[1], ij[2], h, w, cutoff)}
    IN  (IF within # {} THEN {"IndexError"} ELSE {})
        \cup (IF o.use_vals_outside_cutoff_freq /\ Cardinality(within) < h * w
              THEN {"BdbQuit"} ELSE {})

Stack ==
    /\ pc = "stack"
    /\ LET li_method == Lower(opts.li_method)
           images_shifted == [i \in 1..Len(results) |-> results[i].image_shifted]
           rel_shift_idxs == [i \in 1..Len(results) |-> results[i].shift]
           peak_pixel_vals == [i \in 1..Len(results) |-> results[i].peak]
       IN  IF li_method = "peak pixel" /\ RatLess(opts.fsr, RatInt(1))
           THEN IF mode = "serial" /\ N = 0
                THEN \* peak_pixel_vals was never bound
                     Finish(HasRaised("UnboundLocalError", calls, FALSE))
                ELSE IF ~opts.float_index
                THEN \* sorted_idx[:N] with N = np.ceil(...), a float
                     Finish(HasRaised("TypeError", calls, FALSE))
                ELSE IF opts.timeit
                THEN \* "{:d}".format(N) with N a float
                     Finish(HasRaised("ValueError", calls, TRUE))
                ELSE LET sorted_idx == argsort_reversed(peak_pixel_vals)
                         Nkeep == CeilTimes(opts.fsr, N)
                         kept == [i \in 1..(IF Nkeep < Len(sorted_idx) THEN Nkeep
                                            ELSE Len(sorted_idx)) |->
                                     images_shifted[sorted_idx[i]]]
                     IN  Finish(HasReturned(
                             Combine(opts.stacking_method, image_ref, kept, Nkeep),
                             rel_shift_idxs, calls))
           ELSE IF li_method \in {"fas", "fourier amplitude selection"}
           THEN IF ~opts.float_index
                THEN \* vals_to_keep[u+h/2, v+w/2] with u, v, h/2, w/2 floats
                     \E exc \in fas_index_errors(image_ref, opts) :
                        Finish(HasRaised(exc, calls, FALSE))
                ELSE IF images_shifted = <<>>
                THEN \* no frame fills the N_frames_to_keep values of an index
                     Finish(HasRaised("ValueError", calls, FALSE))
                ELSE Finish(HasReturned(fas(image_ref, images_shifted, N, opts),
                                        rel_shift_idxs, calls))
           ELSE Finish(HasReturned(
                    Combine(opts.stacking_method, image_ref, images_shifted, N),
                    rel_shift_idxs, calls))
    /\ UNCHANGED <<inputVars, mem, mode, calls, alignVars>>

Next ==
    \/ Call
    \/ ErrorCheck
    \/ Dispatch
    \/ StartPool
    \/ Worker
    \/ PoolJoin
    \/ SerialInit
    \/ SerialStep
    \/ BadMode
    \/ Stack

Spec == Init /\ [][Next]_vars

\* ======================================================================
\* Fourier amplitude selection of frames with even sides, which the
\* cross-correlation displaces by whole pixels.
\* ======================================================================
FasFrames ==
    {<<<<0, 0>>, <<0, 1>>>>, <<<<0, 1>>, <<1, 0>>>>, <<<<0, 0>>, <<1, 0>>>>,
     <<<<1, 1>>, <<1, 0>>>>}
\* Frames wide enough for an edge ramp of one pixel: one that is zero on its
\* border, one that is not.
FasWide ==
    {<<<<0, 0, 0, 0>>, <<0, 1, 0, 0>>, <<0, 0, 0, 0>>, <<0, 0, 0, 0>>>>,
     <<<<1, 0, 0, 0>>, <<0, 1, 1, 0>>, <<0, 0, 0, 0>>, <<0, 0, 0, 0>>>>}
FasOpt(fsr, sigma, outside, frac, buff, float_index) ==
    [Opt("fas", "average", fsr, <<>>, FALSE, TRUE, float_index)
        EXCEPT !.sigma_kernel = sigma, !.use_vals_outside_cutoff_freq = outside,
               !.cutoff_freq_frac = frac, !.buff_fas = buff]
FasOptions ==
    {FasOpt(fsr, sigma, outside, FsrHalf, 0, TRUE) :
        fsr \in {FsrOne, FsrHalf}, sigma \in {0, 1}, outside \in BOOLEAN}
    \cup {FasOpt(FsrHalf, sigma, TRUE, FsrOne, 0, TRUE) : sigma \in {0, 1}}
    \cup {FasOpt(FsrOne, 0, outside, FsrHalf, 0, FALSE) : outside \in BOOLEAN}
FasRampOptions ==
    {FasOpt(fsr, 0, TRUE, FsrOne, buff, TRUE) : fsr \in {FsrOne, FsrHalf}, buff \in {0, 1}}

InitFAS ==
    /\ \/ /\ stack \in {[ndim |-> 3, frames |-> fs, float64 |-> TRUE] : fs \in SeqsUpTo(FasFrames, MaxStack)}
          /\ ref_arg \in {<<>>} \cup FasFrames
          /\ opts \in FasOptions
       \/ /\ \E g \in FasWide, n \in 1..MaxStack :
                /\ stack = [ndim |-> 3, frames |-> [t \in 1..n |-> g], float64 |-> TRUE]
                /\ ref_arg = g
          /\ opts \in FasRampOptions
    /\ N_arg = 0
    /\ outcome = [m \in {Modes[i] : i \in 1..Len(Modes)} |-> NotRun]
    /\ pc = "idle"
    /\ mode = "none"
    /\ images = <<>>
    /\ image_ref = <<>>
    /\ N = 0
    /\ img_ref_peak_idx = NoPeak
    /\ k = 0
    /\ pending = {}
    /\ results = <<>>
    /\ calls = 0
    /\ HeapInit
    /\ reference = <<>>
    /\ frame = <<>>
    /\ strategy = "none"
    /\ estimate = NoEstimate
    /\ apc = "off"
    /\ UnitIdle

SpecFAS == InitFAS /\ [][Next]_vars

\* ======================================================================
\* Blind stacks of a reference and copies of it, the pixel values being
\* floating-point numbers of integer value.
\* ======================================================================
BlindPixels == 0..(Pow2(MantissaBits) - 1)
BlindFrames == Images(StackShape[1], StackShape[2], BlindPixels)

InitBlind ==
    /\ \E ref \in BlindFrames, n \in 1..MaxStack :
          \/ /\ ref_arg = ref
             /\ stack = [ndim |-> 3, frames |-> [t \in 1..n |-> ref], float64 |-> TRUE]
          \/ /\ ref_arg = <<>>
             /\ stack = [ndim |-> 3, frames |-> [t \in 1..(n + 1) |-> ref], float64 |-> TRUE]
    /\ N_arg = 0
    /\ opts \in {Opt("blind stack", st, FsrOne, <<>>, TRUE, TRUE, TRUE) :
                    st \in StackingMethods}
    /\ outcome = [m \in {Modes[i] : i \in 1..Len(Modes)} |-> NotRun]
    /\ pc = "idle"
    /\ mode = "none"
    /\ images = <<>>
    /\ image_ref = <<>>
    /\ N = 0
    /\ img_ref_peak_idx = NoPeak
    /\ k = 0
    /\ pending = {}
    /\ results = <<>>
    /\ calls = 0
    /\ HeapInit
    /\ reference = <<>>
    /\ frame = <<>>
    /\ strategy = "none"
    /\ estimate = NoEstimate
    /\ apc = "off"
    /\ UnitIdle

NextBlind ==
    \/ Call
    \/ ErrorCheck
    \/ Dispatch

SpecBlind == InitBlind /\ [][NextBlind]_vars

\* ======================================================================
\* The other functions, each called once on arguments of its own.
\* ======================================================================
\* What a call hands back: a value, or the exception it raised.
Gave(v) == [raised |-> "", value |-> v]
Threw(exc) == [raised |-> exc, value |-> <<>>]

\* detector_saturation: a level, or np.inf (the default).
Unsaturated == [inf |-> TRUE, level |-> 0]
Saturation(v) == [inf |-> FALSE, level |-> v]
Saturations == {Saturation(v) : v \in 0..MaxCount} \cup {Unsaturated}

\* A clip that bounds the values from above only.
clip_above(x, a_min, a_max) ==
    IF ~a_max.inf /\ x > a_max.level THEN a_max.level ELSE x
\* np.clip(x, a_min, a_max) of one value: minimum(a_max, maximum(x, a_min)).
clip(x, a_min, a_max) ==
    LET low == IF x < a_min THEN a_min ELSE x
    IN  IF ~a_max.inf /\ low > a_max.level THEN a_max.level ELSE low

\* etcutils.expected_count_to_count(im_tt, t_exp): the counts of one
\* exposure, whole and not negative; every such frame can come out.
expected_count_to_count == Images(StackShape[1], StackShape[2], 0..MaxCount)
Noise == Images(StackShape[1], StackShape[2], (-MaxCount)..MaxCount)

\* lucky_frame from the conversion to counts on: gain, the two noise
\* frames, the clip.  star_fits tells whether im_star (when given) has the
\* shape of the convolved image.
lucky_frame(counts, star_fits, gain, noise_frame_gain_multiplied, noise_frame_post_gain, detector_saturation) ==
    IF ~star_fits THEN Threw("UserWarning")
    ELSE Gave([i \in 1..Height(counts) |-> [j \in 1..Width(counts) |->
            clip(counts[i][j] * gain + noise_frame_gain_multiplied[i][j]
                     + noise_frame_post_gain[i][j],
                 0, detector_saturation)]])

LuckyFrame ==
    /\ fn = "none"
    /\ \E counts \in expected_count_to_count, star_fits \in BOOLEAN,
          gain \in 1..MaxCount, n1 \in Noise, n2 \in Noise, sat \in Saturations :
          /\ args' = [counts |-> counts, gain |-> gain,
                      noise_frame_gain_multiplied |-> n1,
                      noise_frame_post_gain |-> n2, detector_saturation |-> sat]
          /\ ret' = lucky_frame(counts, star_fits, gain, n1, n2, sat)
    /\ fn' = "lucky_frame"
    /\ UNCHANGED <<reference, frame, strategy, estimate, apc, stack, ref_arg, N_arg,
                   opts, outcome, pc, mode, images, image_ref, handles, mem, N, img_ref_peak_idx,
                   k, pending, results, calls>>

\* Everything but the call of one of the other functions.
idleVars == <<reference, frame, strategy, estimate, apc, stack, ref_arg, N_arg,
              opts, outcome, pc, mode, images, image_ref, N, img_ref_peak_idx,
              k, pending, results, calls, heapVars>>

\* np.sqrt(x) of a rational x >= 0, kept as the number whose square is x.
np_sqrt(x) == [sqrt_of |-> x]
\* Tip/tilt coordinates: N rows (row, column) of whole pixels.
ShiftRows == {<<a, b>> : a \in 0..MaxPix, b \in 0..MaxPix}
ShiftArrays(n) == [1..n -> ShiftRows]
\* opticalsystem.plate_scale_as_px
PlateScales == 1..2

\* The errors with every recovered shift taken as zero.
alignment_err_of_input(in_idxs, out_idxs, plate_scale_as_px, plotHist) ==
    IF plotHist /\ Len(in_idxs) = 0 THEN Threw("ValueError")
    ELSE [raised |-> "", in_idxs |-> in_idxs, out_idxs |-> out_idxs,
          errs_px |-> [kk \in 1..Len(in_idxs) |->
                         <<RatInt(in_idxs[kk][1]), RatInt(in_idxs[kk][2]),
                           np_sqrt(RatInt(in_idxs[kk][1] * in_idxs[kk][1]
                                          + in_idxs[kk][2] * in_idxs[kk][2]))>>],
          value |-> [kk \in 1..Len(in_idxs) |->
                         <<RatInt(in_idxs[kk][1] * plate_scale_as_px),
                           RatInt(in_idxs[kk][2] * plate_scale_as_px),
                           np_sqrt(RatInt((in_idxs[kk][1] * in_idxs[kk][1]
                                           + in_idxs[kk][2] * in_idxs[kk][2])
                                          * plate_scale_as_px * plate_scale_as_px))>>]]
\* alignment_err(in_idxs, out_idxs, opticalsystem, plotHist = ..): value is
\* the array returned (errs_as), errs_px the array that is printed from, and
\* in_idxs and out_idxs are the two arguments as the call leaves them.  The
\* histogram takes max() of the error columns, which an empty array has not.
alignment_err(in_idxs, out_idxs, plate_scale_as_px, plotHist) ==
    LET errs_as == [kk \in 1..Len(in_idxs) |->
            LET e0 == (in_idxs[kk][1] - out_idxs[kk][1]) * plate_scale_as_px
                e1 == (in_idxs[kk][2] - out_idxs[kk][2]) * plate_scale_as_px
            IN  <<RatInt(e0), RatInt(e1), np_sqrt(RatInt(e0 * e0 + e1 * e1))>>]
        errs_px == [kk \in 1..Len(in_idxs) |->
            <<RatDivInt(errs_as[kk][1], plate_scale_as_px),
              RatDivInt(errs_as[kk][2], plate_scale_as_px),
              np_sqrt(RatDivInt(errs_as[kk][3].sqrt_of,
                                plate_scale_as_px * plate_scale_as_px))>>]
    IN  IF plotHist /\ Len(in_idxs) = 0 THEN Threw("ValueError")
        ELSE [raised |-> "", value |-> errs_as, errs_px |-> errs_px,
              in_idxs |-> in_idxs, out_idxs |-> out_idxs]

AlignmentErr ==
    /\ fn = "none"
    /\ \E n \in 0..(MaxStack - 1), plate_scale_as_px \in PlateScales,
          plotHist \in BOOLEAN :
          \E in_idxs \in ShiftArrays(n), out_idxs \in ShiftArrays(n) :
             /\ args' = [in_idxs |-> in_idxs, out_idxs |-> out_idxs,
                         plate_scale_as_px |-> plate_scale_as_px,
                         plotHist |-> plotHist]
             /\ ret' = alignment_err(in_idxs, out_idxs, plate_scale_as_px, plotHist)
    /\ fn' = "alignment_err"
    /\ UNCHANGED idleVars

\* An argument left at its default None (a number 0 is taken for it by
\* `not x` as well).
None == 0
\* Values of l_px_m, f_ratio and N_OS, in units that make wavelength_m 1 and
\* take np.deg2rad(206265 / 3600) for the 1 it is within 1e-6.
Supplied == 1..MaxCount
\* int(np.round(trunc_sigma * N_OS * 4)), trunc_sigma = 10.25, for both sides.
psf_size(N_OS) == RoundHalfEven(41 * N_OS[1], N_OS[2])
\* airyDisc(...)[0]: the kernel, known by the arguments it is computed from.
airyDisc(f_ratio, l_px_m, N_OS, detector_size_px) ==
    Gave([f_ratio |-> f_ratio, l_px_m |-> l_px_m,
          detector_size_px |-> IF detector_size_px = None
                               THEN <<psf_size(N_OS), psf_size(N_OS)>>
                               ELSE <<detector_size_px, detector_size_px>>])
\* psfKernel(wavelength_m, l_px_m, f_ratio, N_OS, detector_size_px): the
\* outcomes of the call.  Arithmetic on a None raises TypeError;
\* pdb.set_trace() ends in BdbQuit or is continued from.
psfKernel(l_px_m, f_ratio, N_OS, detector_size_px) ==
    IF f_ratio = None
    THEN IF N_OS = None \/ l_px_m = None THEN {Threw("TypeError")}
         ELSE {airyDisc(Rat(2 * N_OS * l_px_m, 1), RatInt(l_px_m), RatInt(N_OS),
                        detector_size_px)}
    ELSE IF N_OS = None
    THEN IF l_px_m = None THEN {Threw("TypeError")}
         ELSE {Threw("BdbQuit"),
               airyDisc(RatInt(f_ratio), RatInt(l_px_m), Rat(f_ratio, 2 * l_px_m),
                        detector_size_px)}
    ELSE IF l_px_m = None
    THEN {airyDisc(RatInt(f_ratio), Rat(f_ratio, 2 * N_OS), RatInt(N_OS),
                   detector_size_px)}
    ELSE {airyDisc(RatInt(f_ratio), RatInt(l_px_m), RatInt(N_OS), detector_size_px)}

PsfKernel ==
    /\ fn = "none"
    /\ \E l_px_m \in {None} \cup Supplied, f_ratio \in {None} \cup Supplied,
          N_OS \in {None} \cup Supplied, detector_size_px \in {None} \cup Supplied :
          /\ args' = [l_px_m |-> l_px_m, f_ratio |-> f_ratio, N_OS |-> N_OS,
                      detector_size_px |-> detector_size_px]
          /\ ret' \in psfKernel(l_px_m, f_ratio, N_OS, detector_size_px)
    /\ fn' = "psfKernel"
    /\ UNCHANGED idleVars

\* The frequency plane of an h x w frame, every value labelled with the
\* index fft2 puts it at.
FrequencyPlane(h, w) == [i \in 1..h |-> [j \in 1..w |-> <<i - 1, j - 1>>]]

\* The two shifts of the Fourier amplitude selection on one plane:
\* fftshift(fft2(...), axes = (1, 2)) before the selection, and
\* fftshift(fft_sum / N_frames_to_keep) before ifft2; the selection in
\* between leaves every value at its index.
Recentre ==
    /\ fn = "none"
    /\ \E h \in 1..(MaxStack + 1), w \in 1..(MaxStack + 1) :
          /\ args' = [h |-> h, w |-> w]
          /\ ret' = Gave(fftshift(fftshift(FrequencyPlane(h, w))))
    /\ fn' = "fftshift"
    /\ UNCHANGED idleVars

\* Shapes and frames handed to edge_ramp: every frame of the small shapes,
\* and frames of RampSide x RampSide pixels that rise along both axes.
EdgeShapes == {<<1, 1>>, <<2, 2>>, <<2, 3>>, <<3, 2>>, <<3, 3>>}
RampSide == 5
EdgeFrames ==
    UNION {Images(sh[1], sh[2], Pixels) : sh \in EdgeShapes}
      \cup {[i \in 1..RampSide |-> [j \in 1..RampSide |-> c + i * j]] : c \in Pixels}
\* Buffer widths, the default buff_fas among them.
RampBuffs == (0..2) \cup {BuffFas}

\* edge_ramp(im, buff) as a call: value is the array returned and im the
\* argument as the call leaves it.  A crop that leaves no pixel along an
\* axis cannot be padded: np.pad(mode = 'linear_ramp') raises ValueError for
\* an empty axis.
edge_ramp_call(im, buff) ==
    IF Height(im) - 2 * buff <= 0 \/ Width(im) - 2 * buff <= 0
    THEN [raised |-> "ValueError", value |-> <<>>, im |-> im]
    ELSE [raised |-> "", value |-> edge_ramp(im, buff), im |-> im]

EdgeRamp ==
    /\ fn = "none"
    /\ \E im \in EdgeFrames, buff \in RampBuffs :
          /\ args' = [im |-> im, buff |-> buff]
          /\ ret' = edge_ramp_call(im, buff)
    /\ fn' = "edge_ramp"
    /\ UNCHANGED idleVars

UnitInit ==
    /\ UnitIdle
    /\ reference = <<>> /\ frame = <<>> /\ strategy = "none"
    /\ estimate = NoEstimate /\ apc = "off"
    /\ stack = <<>> /\ ref_arg = <<>> /\ N_arg = 0 /\ opts = <<>> /\ outcome = <<>>
    /\ pc = "off" /\ mode = "none" /\ images = <<>> /\ image_ref = <<>> /\ N = 0
    /\ img_ref_peak_idx = <<>> /\ k = 0 /\ pending = {} /\ results = <<>>
    /\ calls = 0
    /\ HeapOff

UnitNext ==
    \/ LuckyFrame
    \/ AlignmentErr
    \/ PsfKernel
    \/ Recentre
    \/ EdgeRamp

SpecUnits == UnitInit /\ [][UnitNext]_vars

ErrPx(kk) ==
    LET d0 == args.in_idxs[kk][1] - args.out_idxs[kk][1]
        d1 == args.in_idxs[kk][2] - args.out_idxs[kk][2]
    IN  <<d0, d1, d0 * d0 + d1 * d1>>
ErrAs(kk) ==
    LET p == args.plate_scale_as_px
    IN  <<ErrPx(kk)[1] * p, ErrPx(kk)[2] * p, ErrPx(kk)[3] * p * p>>
\* An N x 3 array holds the given errors, frame by frame.
HoldsErrors(arr, Err(_)) ==
    /\ Len(arr) = Len(args.in_idxs)
    /\ \A kk \in 1..Len(arr) :
          /\ arr[kk][1] = RatInt(Err(kk)[1])
          /\ arr[kk][2] = RatInt(Err(kk)[2])
          /\ arr[kk][3].sqrt_of = RatInt(Err(kk)[3])
AlignmentErrReturned == fn = "alignment_err" /\ ret.raised = ""
InputsLeft == ret.in_idxs = args.in_idxs /\ ret.out_idxs = args.out_idxs

\* C23: alignment_err returns, for every frame, the signed row and column
\* error (true - recovered) and their Euclidean magnitude in pixel units as
\* well as in angular units, and leaves both input arrays unchanged.
C23_ErrorsInBothUnits ==
    AlignmentErrReturned =>
        /\ \E arr \in {ret.value} : HoldsErrors(arr, ErrAs)
        /\ \E arr \in {ret.value} : HoldsErrors(arr, ErrPx)
        /\ InputsLeft

\* C23 (amended): the array alignment_err returns holds, for every frame,
\* the row error, the column error and their Euclidean magnitude in angular
\* units; the same in pixel units is computed and printed from, not
\* returned; both input arrays are left unchanged.
C23_ErrorsInArcseconds ==
    AlignmentErrReturned =>
        /\ HoldsErrors(ret.value, ErrAs)
        /\ HoldsErrors(ret.errs_px, ErrPx)
        /\ InputsLeft

\* Two frames, one with an error in each axis, at a plate scale of 2.
C23_Witness ==
    /\ AlignmentErrReturned
    /\ args.plate_scale_as_px = 2
    /\ Len(args.in_idxs) = 2
    /\ ErrPx(1)[1] < 0 /\ ErrPx(1)[2] > 0
    /\ ret.value[1][3].sqrt_of = RatInt(8)

\* C25: psfKernel raises, and computes no kernel, when both the f ratio and
\* the Nyquist sampling factor N_OS are supplied.
C25_BothSuppliedRaises ==
    (fn = "psfKernel" /\ args.f_ratio # None /\ args.N_OS # None) =>
        ret.raised # ""

\* C29: the second fftshift of the Fourier amplitude selection undoes the
\* first: every value of the frequency plane is back at its original index
\* when the plane goes to the inverse transform, for odd and even sides.
C29_RecentringUndone ==
    fn = "fftshift" => ret.value = FrequencyPlane(args.h, args.w)

\* The planes with even sides are back in place; along an odd side n the
\* values are left displaced by one index (n - 1 modulo n).
C29_UndoneForEvenSides ==
    fn = "fftshift" =>
        \A i \in 1..args.h, j \in 1..args.w :
            ret.value[i][j] = <<(i - 1 + (args.h % 2)) % args.h,
                                (j - 1 + (args.w % 2)) % args.w>>

\* The buffer of the current edge_ramp call leaves a centre: 2b < min(h, w).
LeavesCentre ==
    /\ 2 * args.buff < Height(args.im)
    /\ 2 * args.buff < Width(args.im)
\* The call returned an image of the input's dimensions whose central
\* (h - 2b) x (w - 2b) pixels are the input's and whose outermost rows and
\* columns are zero when b > 0.
RampedToZero ==
    LET h == Height(args.im)
        w == Width(args.im)
        b == args.buff
    IN  /\ ret.raised = ""
        /\ Shape(ret.value) = Shape(args.im)
        /\ \A i \in (b + 1)..(h - b), j \in (b + 1)..(w - b) :
              ret.value[i][j] = args.im[i][j]
        /\ b > 0 =>
              /\ \A j \in 1..w : ret.value[1][j] = 0 /\ ret.value[h][j] = 0
              /\ \A i \in 1..h : ret.value[i][1] = 0 /\ ret.value[i][w] = 0

Finished(m) == outcome[m].status # "notrun"
ReturnedIn(m) == outcome[m].status = "returned"
RaisedIn(m) == outcome[m].status = "raised"

\* The supported method names, in the spellings the calls use.
KnownMethods ==
    {"cross-correlation", "gaussian fit", "peak pixel", "Peak Pixel", "centroid",
     "blind stack", "fourier amplitude selection", "fas"}
UnknownMethod == opts.li_method \notin KnownMethods
RefShapeDiffers ==
    /\ ref_arg # <<>>
    /\ stack.frames # <<>>
    /\ Shape(ref_arg) # Shape(stack.frames[1])

\* The input is one validation accepts: a 3D stack that leaves a frame to
\* align, an N within it, a reference of the frames' shape, a known method.
AcceptedInput ==
    /\ stack.ndim = 3
    /\ Len(stack.frames) >= (IF ref_arg = <<>> THEN 2 ELSE 1)
    /\ N_arg <= Len(stack.frames)
    /\ ~RefShapeDiffers
    /\ ~UnknownMethod

\* C1: for every accepted input, what the serial run returns the parallel
\* run returns too: the same stacked image and the same shift array.
C1_SerialParallelAgree ==
    (/\ AcceptedInput
     /\ Finished("serial") /\ Finished("parallel")
     /\ ReturnedIn("serial") \/ ReturnedIn("parallel")) =>
        /\ ReturnedIn("serial") /\ ReturnedIn("parallel")
        /\ outcome["serial"].image = outcome["parallel"].image
        /\ outcome["serial"].shifts = outcome["parallel"].shifts

\* C2: with no reference supplied and fewer than two images in the stack,
\* the call fails with an error before a frame is processed.
C2_TooFewImagesRaise ==
    \A m \in {"serial", "parallel"} :
        (ref_arg = <<>> /\ Len(stack.frames) < 2 /\ Finished(m)) =>
            /\ RaisedIn(m)
            /\ outcome[m].aligned = 0
            /\ ~outcome[m].stacked

\* C3: an unknown method name, or a reference of another shape than the
\* frames, makes the call raise in every mode with no shift function invoked
\* and no stacked image computed.
C3_ConfigErrorsBeforeAlignment ==
    \A m \in DOMAIN outcome :
        ((UnknownMethod \/ RefShapeDiffers) /\ Finished(m)) =>
            /\ RaisedIn(m)
            /\ outcome[m].aligned = 0
            /\ ~outcome[m].stacked

\* An unknown method on a stack that passes the input check, called in all
\* three modes.
C3_Witness ==
    /\ UnknownMethod
    /\ stack.ndim = 3 /\ Len(stack.frames) = MaxStack
    /\ ref_arg \in Frames
    /\ \A m \in DOMAIN outcome : RaisedIn(m) /\ outcome[m].exc = "UserWarning"

\* The shift row of the frame im aligned against the reference ref.
ShiftRow(ref, im) ==
    IF Lower(opts.li_method) = "blind stack" THEN VecZero
    ELSE shift_fun(opts, ref, ref_peak(opts, ref), im).shift

\* The implicit reference in a call that returned: the reference is the
\* first frame, the shift array has one row for every remaining frame, row t
\* is the shift of the t-th remaining frame, and an average over all aligned
\* frames divides by their number plus one.
ImplicitReferenceIn(m) ==
    LET L == Len(stack.frames)
        res == outcome[m]
    IN  /\ res.image.ref = stack.frames[1]
        /\ Len(res.shifts) = L - 1
        /\ \A t \in 1..(L - 1) :
              t <= Len(res.shifts) =>
                 res.shifts[t] = ShiftRow(stack.frames[1], stack.frames[t + 1])
        /\ (res.image.rule = "average" /\ opts.fsr = FsrOne) => res.image.div = L

\* C4 as stated: whenever no reference is supplied (and the stack leaves
\* enough frames for the N asked for), N is the stack length minus 1 and the
\* shift array has N rows in input order.
C4_ImplicitReference ==
    \A m \in {"serial", "parallel"} :
        (/\ ref_arg = <<>>
         /\ Len(stack.frames) >= 2
         /\ N_arg <= Len(stack.frames) - 1
         /\ ReturnedIn(m)) => ImplicitReferenceIn(m)

\* C4 amended: when neither a reference nor an explicit N is supplied, a call
\* that returns took the first frame as reference, N is the stack length
\* minus 1 and the shift array has N rows, row t for the t-th remaining
\* frame, frames dropped by frame selection included.
C4_ImplicitReferenceDefaultN ==
    \A m \in {"serial", "parallel"} :
        (ref_arg = <<>> /\ N_arg = 0 /\ ReturnedIn(m)) => ImplicitReferenceIn(m)

\* A peak-pixel call with frame selection on three frames and no reference
\* returned in both modes; a frame was shifted and the selection kept one
\* of the two aligned frames.
C4_Witness ==
    /\ ref_arg = <<>> /\ N_arg = 0
    /\ Len(stack.frames) = 3
    /\ Lower(opts.li_method) = "peak pixel" /\ opts.fsr = FsrHalf
    /\ ReturnedIn("serial") /\ ReturnedIn("parallel")
    /\ Len(outcome["serial"].shifts) = 2
    /\ outcome["serial"].shifts[2] # VecZero
    /\ Len(outcome["serial"].image.frames) = 1

\* The method fits a Gaussian to every frame.
UsesFit ==
    \/ Lower(opts.li_method) = "gaussian fit"
    \/ /\ Lower(opts.li_method) \in {"cross-correlation", "fas",
                                     "fourier amplitude selection"}
       /\ opts.sub_pixel_shift
\* The Gaussian fit the method makes for the frame im raises.
FitFails(im) ==
    IF Lower(opts.li_method) = "gaussian fit"
    THEN _gaussfit_peak(MeanSubtracted(im)).raised # ""
    ELSE fit_p(Cropped(Height(im), Width(im), opts.buff_xcorr), <<>>).raised # ""
\* N when the caller passes none.
DefaultN == IF ref_arg = <<>> THEN Len(stack.frames) - 1 ELSE Len(stack.frames)

\* C13 as stated: when the Gaussian fit of a frame of the batch fails, the
\* failure is caught and the call still returns a stacked image and N
\* shifts.
C13_FitFailureSubstituted ==
    \A m \in {"serial", "parallel"} :
        (/\ AcceptedInput /\ N_arg = 0
         /\ UsesFit
         /\ \E t \in 1..Len(stack.frames) : FitFails(stack.frames[t])
         \* the reference coordinates, where the method needs them, were found
         /\ Lower(opts.li_method) = "gaussian fit" =>
               ref_peak_gaussfit(IF ref_arg = <<>> THEN stack.frames[1]
                                 ELSE ref_arg).raised = ""
         /\ Finished(m)) =>
            /\ ReturnedIn(m)
            /\ Len(outcome[m].shifts) = DefaultN

\* N as the input check leaves it.
CheckedN == IF N_arg # 0 THEN N_arg ELSE DefaultN

\* C14: a blind-stack call runs no shift function and returns a shift array
\* of N rows that are all zero, under both stacking rules.
C14_BlindStackZeroShifts ==
    \A m \in DOMAIN outcome :
        (Lower(opts.li_method) = "blind stack" /\ Finished(m)) =>
            /\ outcome[m].aligned = 0
            /\ ReturnedIn(m) =>
                  /\ Len(outcome[m].shifts) = CheckedN
                  /\ \A t \in 1..Len(outcome[m].shifts) : outcome[m].shifts[t] = VecZero

\* Blind stacks of MaxStack frames onto a reference were returned under the
\* median rule in every mode.
C14_Witness ==
    /\ Lower(opts.li_method) = "blind stack"
    /\ opts.stacking_method = "median combine"
    /\ ref_arg # <<>> /\ Len(stack.frames) = MaxStack /\ N_arg = 0
    /\ \A m \in DOMAIN outcome :
          ReturnedIn(m) /\ Len(outcome[m].shifts) = MaxStack

\* The reference of the call.
BlindRef == IF ref_arg = <<>> THEN stack.frames[1] ELSE ref_arg
\* The frames a call aligns when it aligns every frame it was given.
InputFrames == IF ref_arg = <<>> THEN Drop(stack.frames, 1) ELSE stack.frames
\* A peak-pixel call with a selection ratio below 1.
SelectsByPeak == Lower(opts.li_method) = "peak pixel" /\ RatLess(opts.fsr, RatInt(1))

\* The stacked image of the returned call m combines the reference with
\* exactly ceil(fsr * n) of the n aligned frames, none of them with a smaller
\* peak value than a frame left out, and divides an average by that number
\* plus one.
SelectedByPeak(m) ==
    LET res == outcome[m]
        n == Len(res.shifts)
        aligned == [t \in 1..n |-> ndshift(InputFrames[t], VecNeg(res.shifts[t]))]
        kept == res.image.frames
        want == CeilTimes(opts.fsr, n)
    IN  /\ Len(kept) = want
        /\ \E S \in SUBSET (1..n) :
              /\ Cardinality(S) = want
              /\ \E f \in [1..want -> S] :
                    /\ \A a, b \in 1..want : f[a] = f[b] => a = b
                    /\ \A a \in 1..want : kept[a] = aligned[f[a]]
              /\ \A t \in S, u \in (1..n) \ S :
                    MaxPixel(InputFrames[t]) >= MaxPixel(InputFrames[u])
        /\ res.image.rule = "average" => res.image.div = want + 1

\* C16: a peak-pixel call with selection ratio r < 1 returns a stacked image
\* that combines the reference with exactly the ceil(r x N) aligned frames of
\* largest peak value, an average dividing by ceil(r x N) + 1.
C16_PeakSelectionCombined ==
    \A m \in {"serial", "parallel"} :
        (AcceptedInput /\ N_arg = 0 /\ SelectsByPeak /\ Finished(m)) =>
            ReturnedIn(m) /\ SelectedByPeak(m)

\* The calls of C16 that do return combine the frames the claim names.
C16_ReturnedSelection ==
    \A m \in {"serial", "parallel"} :
        (AcceptedInput /\ N_arg = 0 /\ SelectsByPeak /\ ReturnedIn(m)) =>
            SelectedByPeak(m)

\* The selection ratio keeps every one of the frames of the call.
RetainsEveryFrame ==
    ~RatLess(opts.fsr, RatInt(1)) \/ CeilTimes(opts.fsr, DefaultN) >= DefaultN
\* The sequences a and b hold the same elements the same number of times.
SameBag(a, b) ==
    /\ Len(a) = Len(b)
    /\ \A t \in 1..Len(a) :
          Cardinality({u \in 1..Len(a) : a[u] = a[t]})
              = Cardinality({u \in 1..Len(b) : b[u] = a[t]})

\* The returned call m gives what the path without selection gives: the
\* shift of every frame, and the combination of the reference with all the
\* aligned frames.
SameAsUnfiltered(m) ==
    LET res == outcome[m]
        ref == BlindRef
        n == Len(InputFrames)
        rows == [t \in 1..n |-> ShiftRow(ref, InputFrames[t])]
        expect == Combine(opts.stacking_method, ref,
                          [t \in 1..n |-> ndshift(InputFrames[t], VecNeg(rows[t]))], n)
    IN  /\ res.shifts = rows
        /\ res.image.rule = expect.rule
        /\ res.image.ref = expect.ref
        /\ res.image.div = expect.div
        /\ SameBag(res.image.frames, expect.frames)

\* C17: a peak-pixel call whose selection ratio retains every frame (1.0, or
\* a ratio below 1 with ceil(r x N) = N) returns the stacked image and the
\* shifts of the path without selection.
C17_FullSelectionIsUnfiltered ==
    \A m \in {"serial", "parallel"} :
        (/\ AcceptedInput /\ N_arg = 0 /\ opts.bid_area = <<>>
         /\ Lower(opts.li_method) = "peak pixel"
         /\ RetainsEveryFrame
         /\ Finished(m)) =>
            ReturnedIn(m) /\ SameAsUnfiltered(m)

\* The part of C17 the code keeps: every such call that returns, and every
\* such call with the ratio 1.0.
C17_WhereReturned ==
    \A m \in {"serial", "parallel"} :
        (/\ AcceptedInput /\ N_arg = 0 /\ opts.bid_area = <<>>
         /\ Lower(opts.li_method) = "peak pixel"
         /\ RetainsEveryFrame
         /\ Finished(m)) =>
            /\ ReturnedIn(m) => SameAsUnfiltered(m)
            /\ opts.fsr = FsrOne => ReturnedIn(m)

\* C22: lucky_imaging leaves the caller's frame stack and reference image as
\* they were passed, at every point of every call, in every mode, for every
\* method and stacking rule, whether or not the arrays were float64 already.
C22_InputsUnchanged ==
    mem = [images |-> stack.frames, image_ref |-> ref_arg]

\* Both calls of a centroid alignment have returned; the arrays were float64
\* and the reference supplied, so the locals are the caller's own arrays, and
\* thresholding changes the reference and a frame.
C22_Witness ==
    /\ Lower(opts.li_method) = "centroid"
    /\ stack.float64 /\ ref_arg # <<>>
    /\ Threshold(ref_arg) # ref_arg
    /\ \E i \in 1..Len(stack.frames) : Threshold(stack.frames[i]) # stack.frames[i]
    /\ ReturnedIn("serial") /\ ReturnedIn("parallel")

\* The frames of the pool whose result has been delivered.
Delivered == (1..Len(results)) \ pending
\* A step of the pool: a worker delivers one result and the call goes on.
PoolStep == pc = "pool" /\ pc' = "pool"

\* C24: in parallel mode selection and stacking start only after every
\* worker has delivered; the k-th result is the one of the k-th input frame,
\* whatever the order the workers finish in; and a worker changes nothing
\* but its own entry of the result list: the frames, the reference, the
\* reference peak, the options and the results of the others stay as they
\* were.
C24_PoolJoinsBeforeStacking ==
    /\ [](/\ (mode = "parallel" /\ pc = "stack") =>
                (pending = {} /\ Len(results) = Len(images))
          /\ (mode = "parallel" /\ pc \in {"pool", "stack"}) =>
                \A i \in Delivered :
                    results[i] = shift_fun(opts, image_ref, img_ref_peak_idx, images[i]))
    /\ [][PoolStep =>
            /\ UNCHANGED <<images, image_ref, img_ref_peak_idx, opts, N, mem>>
            /\ \E i \in pending :
                  /\ pending' = pending \ {i}
                  /\ \A j \in (1..Len(results)) \ {i} : results'[j] = results[j]]_vars

\* The worker of the second frame has delivered before the one of the first,
\* and the two results differ.
C24_Witness ==
    /\ mode = "parallel" /\ pc = "pool"
    /\ Len(images) = 2 /\ pending = {1}
    /\ results[2] = shift_fun(opts, image_ref, img_ref_peak_idx, images[2])
    /\ results[2] # shift_fun(opts, image_ref, img_ref_peak_idx, images[1])

\* The input check of the current call has passed.
Validated == pc \in {"dispatch", "mode", "pool", "serial", "stack"}

\* C26: once the input check has passed, N is at most the number of frames
\* left to align, and the serial loop's index k addresses one of them.
C26_NWithinFrames ==
    /\ Validated => N <= Len(images)
    /\ pc = "serial" => k < Len(images)

\* C27: an average returned by a call divides the sum of the reference and
\* the frames added to it by one plus the number of those frames, in both
\* modes, for every method and every accepted input.
C27_AverageIsMean ==
    \A m \in {"serial", "parallel"} :
        (ReturnedIn(m) /\ outcome[m].image.rule = "average") =>
            outcome[m].image.div = 1 + Len(outcome[m].image.frames)

\* ----------------------------------------------------------------------
\* Properties of the Fourier amplitude selection (SpecFAS).
\* ----------------------------------------------------------------------
\* The 1-based indices of the shifted frequency plane of the call, and those
\* within the cutoff radius.
Plane == (1..Height(BlindRef)) \X (1..Width(BlindRef))
Disc ==
    {ij \in Plane :
        uv_map(ij[1] - 1, ij[2] - 1, Height(BlindRef), Width(BlindRef),
               cutoff_freq_px(opts.cutoff_freq_frac, Height(BlindRef), Width(BlindRef)))}
\* k of the claims, for the N of a call without an explicit N.
KeptCount == N_frames_to_keep(opts.fsr, DefaultN)
\* The sum of the values vals[t] of the frames t in the set S.
RECURSIVE SumOver(_, _)
SumOver(vals, S) ==
    IF S = {} THEN <<0, 0>>
    ELSE LET t == CHOOSE u \in S : TRUE
         IN  CAdd(vals[t], SumOver(vals, S \ {t}))

\* The accumulated value acc is the sum of vals over KeptCount distinct
\* frames, each of an amplitude at least that of every frame left out.
LargestOf(acc, vals) ==
    \E S \in SUBSET (1..Len(vals)) :
        /\ Cardinality(S) = KeptCount
        /\ acc = SumOver(vals, S)
        /\ \A t \in S, u \in (1..Len(vals)) \ S : CNorm(vals[t]) >= CNorm(vals[u])

\* That, at every index of the disc of the stacked image img.
LargestAmplitudesKept(img) ==
    \A ffts \in {[t \in 1..Len(img.frames) |-> image_fft(img.frames[t])]} :
        \A ij \in Disc :
            LargestOf(img.fft_sum[ij[1]][ij[2]],
                      [t \in 1..Len(ffts) |-> ffts[t][ij[1]][ij[2]]])

\* C18: every Fourier amplitude selection accumulates, at every index within
\* the low-frequency disc, the values of exactly k distinct frames whose
\* amplitudes at that index are the largest, whatever the smoothing sigma.
C18_LargestAmplitudesKept ==
    \A m \in {"serial", "parallel"} :
        (AcceptedInput /\ Lower(opts.li_method) = "fas" /\ Finished(m)) =>
            /\ ReturnedIn(m)
            /\ LargestAmplitudesKept(outcome[m].image)

\* What the code keeps of C18: in a call that returns, without smoothing.
C18_Unsmoothed ==
    \A m \in {"serial", "parallel"} :
        (/\ AcceptedInput /\ Lower(opts.li_method) = "fas" /\ ReturnedIn(m)
         /\ opts.sigma_kernel = 0) =>
            LargestAmplitudesKept(outcome[m].image)
\* and what it does not: the same with smoothing.
C18_Smoothed ==
    \A m \in {"serial", "parallel"} :
        (/\ AcceptedInput /\ Lower(opts.li_method) = "fas" /\ ReturnedIn(m)) =>
            LargestAmplitudesKept(outcome[m].image)

\* The accumulation of the stacked image img follows one rule at every
\* index: within the disc the sum of KeptCount frames' values; outside it the
\* sum of the values of one set of KeptCount frames, those of largest peak
\* pixel, or zero when values outside the cutoff are not used; and the sum
\* is divided by KeptCount.
OneRulePerIndex(img) ==
    \A ffts \in {[t \in 1..Len(img.frames) |-> image_fft(img.frames[t])]} :
        LET vals(ij) == [t \in 1..Len(ffts) |-> ffts[t][ij[1]][ij[2]]]
            all == 1..Len(img.frames)
        IN  /\ img.div = KeptCount
            /\ \A ij \in Disc :
                  \E S \in SUBSET all :
                     /\ Cardinality(S) = KeptCount
                     /\ img.fft_sum[ij[1]][ij[2]] = SumOver(vals(ij), S)
            /\ IF opts.use_vals_outside_cutoff_freq
               THEN \E S \in SUBSET all :
                       /\ Cardinality(S) = KeptCount
                       /\ \A t \in S, u \in all \ S :
                             MaxPixel(img.frames[t]) >= MaxPixel(img.frames[u])
                       /\ \A ij \in Plane \ Disc :
                             img.fft_sum[ij[1]][ij[2]] = SumOver(vals(ij), S)
               ELSE \A ij \in Plane \ Disc : img.fft_sum[ij[1]][ij[2]] = <<0, 0>>

\* C19: every Fourier amplitude selection accumulates every index of the
\* frequency plane by exactly one rule: the disc by amplitude, its complement
\* by the k frames of highest peak pixel (the same at every index) or, with
\* outside selection disabled, by zero; the sum is divided by k.
C19_DiscAndComplement ==
    \A m \in {"serial", "parallel"} :
        (AcceptedInput /\ Lower(opts.li_method) = "fas" /\ Finished(m)) =>
            ReturnedIn(m) /\ OneRulePerIndex(outcome[m].image)

\* What the code keeps of C19: the rule, in every call that returns.
C19_WhereReturned ==
    \A m \in {"serial", "parallel"} :
        (AcceptedInput /\ Lower(opts.li_method) = "fas" /\ ReturnedIn(m)) =>
            OneRulePerIndex(outcome[m].image)

\* The call is given copies of its reference.
CopiesOfReference ==
    ref_arg # <<>> /\ \A t \in 1..Len(stack.frames) : stack.frames[t] = ref_arg
\* The stacked image img equals the image g pixel for pixel.
ReproducesFrame(img, g) ==
    \A i \in 1..Height(g), j \in 1..Width(g) :
        img.mag2[i][j] = (g[i][j] * Height(g) * Width(g) * img.div)
                             * (g[i][j] * Height(g) * Width(g) * img.div)

\* C20: the Fourier amplitude selection of N copies of the reference returns
\* the reference, for every selection fraction and edge-ramp width.
C20_IdenticalFramesReproduced ==
    \A m \in {"serial", "parallel"} :
        (/\ AcceptedInput /\ Lower(opts.li_method) = "fas"
         /\ opts.use_vals_outside_cutoff_freq
         /\ CopiesOfReference
         /\ Finished(m)) =>
            /\ ReturnedIn(m)
            /\ (\A t \in 1..Len(outcome[m].shifts) : outcome[m].shifts[t] = VecZero)
                  => ReproducesFrame(outcome[m].image, ref_arg)

\* What the code returns instead: the reference with its edges ramped.
C20_RampedFrameReproduced ==
    \A m \in {"serial", "parallel"} :
        (/\ AcceptedInput /\ Lower(opts.li_method) = "fas"
         /\ opts.use_vals_outside_cutoff_freq
         /\ CopiesOfReference
         /\ ReturnedIn(m)
         /\ \A t \in 1..Len(outcome[m].shifts) : outcome[m].shifts[t] = VecZero) =>
            ReproducesFrame(outcome[m].image, edge_ramp(ref_arg, opts.buff_fas))
\* and the same claimed of the reference itself.
C20_WhereReturned ==
    \A m \in {"serial", "parallel"} :
        (/\ AcceptedInput /\ Lower(opts.li_method) = "fas"
         /\ opts.use_vals_outside_cutoff_freq
         /\ CopiesOfReference
         /\ ReturnedIn(m)
         /\ \A t \in 1..Len(outcome[m].shifts) : outcome[m].shifts[t] = VecZero) =>
            ReproducesFrame(outcome[m].image, ref_arg)

\* ----------------------------------------------------------------------
\* Properties of blind stacks of copies (SpecBlind).
\* ----------------------------------------------------------------------
\* The image im with its pixel values as numbers.
AsNumbers(im) == [i \in 1..Height(im) |-> [j \in 1..Width(im) |-> RatInt(im[i][j])]]

\* C15 as stated: the blind stack of a reference and N >= 1 copies of it is
\* the reference, pixel for pixel, under the average and the median rule.
C15_BlindStackOfCopies ==
    \A m \in {"serial", "parallel"} :
        ReturnedIn(m) => stacked_pixels(outcome[m].image) = AsNumbers(BlindRef)

\* Adding x to itself n times is exact at every step.
ExactSums(x, n) == \A t \in 1..n : Float(RatInt(t * x)) = RatInt(t * x)

\* C15 amended: the median is the reference for every N; the average is the
\* reference at every pixel whose value can be added to itself N + 1 times
\* without rounding.
C15_BlindStackOfCopiesExact ==
    \A m \in {"serial", "parallel"} :
        ReturnedIn(m) =>
            LET got == stacked_pixels(outcome[m].image)
                ref == BlindRef
            IN  \A i \in 1..Height(ref), j \in 1..Width(ref) :
                   (\/ outcome[m].image.rule = "median combine"
                    \/ ExactSums(ref[i][j], CheckedN + 1)) =>
                       got[i][j] = RatInt(ref[i][j])

\* An average of a reference and MaxStack copies whose sums are exact at one
\* pixel and rounded at the other.
C15_Witness ==
    /\ ReturnedIn("serial") /\ ReturnedIn("parallel")
    /\ outcome["parallel"].image.rule = "average"
    /\ ref_arg # <<>> /\ Len(stack.frames) = MaxStack
    /\ ref_arg[1][1] > 0 /\ ExactSums(ref_arg[1][1], MaxStack + 1)
    /\ ~ExactSums(ref_arg[1][2], MaxStack + 1)

\* ----------------------------------------------------------------------
\* Properties of the single-frame alignment functions (SpecAlign).
\* ----------------------------------------------------------------------
AlignDone(strat) == apc = "done" /\ strategy = strat
Indices(im) == (0..(Height(im) - 1)) \X (0..(Width(im) - 1))
RowMajorBefore(q, p) == q[1] < p[1] \/ (q[1] = p[1] /\ q[2] < p[2])
\* p holds the maximum of im and no earlier index in row-major order does.
IsFirstMax(im, p) ==
    \A q \in Indices(im) :
        /\ Pix(im, q[1], q[2]) <= Pix(im, p[1], p[2])
        /\ RowMajorBefore(q, p) => Pix(im, q[1], q[2]) < Pix(im, p[1], p[2])
\* The integer displacements that can keep something of an image in frame.
Shifts(im) ==
    (-(Height(im) - 1)..(Height(im) - 1)) \X (-(Width(im) - 1)..(Width(im) - 1))
\* img is ref displaced by s with all of ref's content still inside the frame.
DisplacedBy(ref, img, s) ==
    /\ img = Translate(ref, s[1], s[2])
    /\ SumPixels(img) = SumPixels(ref)
    /\ SumPixels(ref) > 0
\* The image is zero but for one bright pixel.
SingleBlob(im) ==
    \E p \in Indices(im) :
        /\ Pix(im, p[1], p[2]) > 0
        /\ \A q \in Indices(im) : q # p => Pix(im, q[1], q[2]) = 0
\* The displacement s is a lag that the 'same'-sized correlation holds.
InWindow(im, s) ==
    /\ (Height(im) \div 2) - s[1] \in 0..(Height(im) - 1)
    /\ (Width(im) \div 2) - s[2] \in 0..(Width(im) - 1)

\* C5: for every strategy the reported shift is the component-wise
\* negation of the displacement handed to the interpolating shift that
\* produced the returned frame.
C5_ShiftIsNegatedDisplacement ==
    (apc = "done" /\ estimate.raised = "") =>
        LET d == estimate.image_shifted.by
            r == estimate.shift
        IN  /\ r.row[1] = -d.row[1] /\ r.row[2] = d.row[2]
            /\ r.col[1] = -d.col[1] /\ r.col[2] = d.col[2]
            /\ Len(r.fit) = Len(d.fit)
            /\ \A t \in 1..Len(r.fit) :
                  r.fit[t].sign = -d.fit[t].sign /\ r.fit[t].data = d.fit[t].data

\* C5 witness: a centroid alignment that moved the frame by a fraction of
\* a pixel.
C5_Witness ==
    /\ AlignDone("centroid")
    /\ estimate.image_shifted.by.row[2] > 1
    /\ estimate.image_shifted.by.col[1] # 0

\* C6 as stated: the reported vector itself, applied to the frame, takes
\* the frame's peak onto the reference's peak.
C6_ReportedShiftAligns ==
    AlignDone("peak pixel") =>
        /\ peak_index(frame)[1] + estimate.shift.row[1] = peak_index(reference)[1]
        /\ peak_index(frame)[2] + estimate.shift.col[1] = peak_index(reference)[2]

\* C6 amended: it is the negation of the reported vector that aligns:
\* translating the frame by minus the reported shift puts the frame's
\* maximum on the reference's peak index.
C6_NegatedShiftAligns ==
    AlignDone("peak pixel") =>
        LET r == estimate.shift
            p == peak_index(reference)
        IN  /\ RatIsInt(r.row) /\ RatIsInt(r.col) /\ r.fit = <<>>
            /\ Pix(Translate(frame, -r.row[1], -r.col[1]), p[1], p[2]) = MaxPixel(frame)
            /\ peak_index(frame)[1] - r.row[1] = p[1]
            /\ peak_index(frame)[2] - r.col[1] = p[2]

\* C6 witness: a peak-pixel alignment of a frame whose peak is off the
\* reference's peak.
C6_Witness ==
    /\ AlignDone("peak pixel")
    /\ peak_index(frame) # peak_index(reference)
    /\ MaxPixel(frame) > 0

NonConstant(im) == MaxPixel(MeanSubtracted(im)) > 0

\* C8 as stated: identical frame and reference give the shift (0, 0) with
\* every strategy, whatever the frame's height and width (read here for
\* frames that are not constant, so that a correlation peak exists).
C8_IdenticalFramesZeroShift ==
    (apc = "done" /\ estimate.raised = "" /\ frame = reference
        /\ NonConstant(frame)
        /\ strategy \in {"peak pixel", "centroid", "xcorr"}) =>
        estimate.shift = VecZero

\* C9: without a bid area the displacement applied is the reference's peak
\* index minus the frame's, each the first maximum in row-major order, and
\* the peak value returned is the frame's maximum.
C9_PeakPixelFirstMaximum ==
    AlignDone("peak pixel") =>
        \E p \in Indices(frame), r \in Indices(reference) :
            /\ IsFirstMax(frame, p)
            /\ IsFirstMax(reference, r)
            /\ estimate.image_shifted.by = VecInt(<<r[1] - p[1], r[2] - p[2]>>)
            /\ estimate.peak = Pix(frame, p[1], p[2])
            /\ estimate.image_shifted.src = frame

\* C9 witness: frame and reference each hold their maximum more than once,
\* at different first positions.
C9_Witness ==
    /\ AlignDone("peak pixel")
    /\ \E p \in Indices(frame), q \in Indices(frame) :
          p # q /\ Pix(frame, p[1], p[2]) = MaxPixel(frame)
                /\ Pix(frame, q[1], q[2]) = MaxPixel(frame)
    /\ \E p \in Indices(reference), q \in Indices(reference) :
          p # q /\ Pix(reference, p[1], p[2]) = MaxPixel(reference)
                /\ Pix(reference, q[1], q[2]) = MaxPixel(reference)
    /\ estimate.image_shifted.by # VecZero

\* C10 as stated: with a bid area the peaks are searched in the cropped
\* sub-region of frame and reference and the call returns the shift.
C10_BidAreaReturnsShift ==
    \A bid_area \in BidAreas \ {<<>>} :
        AlignDone("peak pixel bid") =>
            /\ estimate.raised = ""
            /\ estimate.image_shifted.by =
                  VecSub(VecInt(peak_index(centre_crop(reference, bid_area))),
                         VecInt(peak_index(centre_crop(frame, bid_area))))

\* C11 as stated: centroid alignment of a frame whose thresholded image has
\* zero total intensity reports an error; it returns no NaN shift and no
\* frame displaced by NaN.
C11_CentroidZeroMassRaises ==
    (AlignDone("centroid") /\ SumPixels(Threshold(frame)) = 0) =>
        /\ estimate.raised # ""
        /\ ~IsNaN(estimate.shift.row) /\ ~IsNaN(estimate.shift.col)
        /\ ~IsNaN(estimate.image_shifted.by.row)
        /\ ~IsNaN(estimate.image_shifted.by.col)

\* The image has one value in every pixel.
Constant(im) == \A p \in Indices(im) : Pix(im, p[1], p[2]) = Pix(im, 0, 0)

\* C12 as stated: a single integer cross-correlation call on a constant
\* frame or a constant reference (all-zero correlation, zero peak) raises
\* an error, it returns no shift.
C12_ZeroPeakCorrelationRaises ==
    (AlignDone("xcorr") /\ (Constant(frame) \/ Constant(reference))) =>
        estimate.raised # ""

\* C28: without a bid area the frame displaced by the computed shift holds
\* the frame's maximum at the reference's peak index, and that index lies
\* inside the frame.
C28_PeakLandsOnReferencePeak ==
    AlignDone("peak pixel") =>
        \E p \in Indices(frame), r \in Indices(reference) :
            /\ IsFirstMax(frame, p)
            /\ IsFirstMax(reference, r)
            /\ r \in Indices(frame)
            /\ WholeShift(estimate.image_shifted)
            /\ Pix(shifted_pixels(estimate.image_shifted), r[1], r[2])
                   = Pix(frame, p[1], p[2])

\* C28 witness: the peak of the frame is moved along both axes, and pixels
\* of the frame leave it.
C28_Witness ==
    /\ AlignDone("peak pixel")
    /\ estimate.image_shifted.by.row # RatInt(0)
    /\ estimate.image_shifted.by.col # RatInt(0)
    /\ MaxPixel(frame) > 0
    /\ SumPixels(shifted_pixels(estimate.image_shifted)) < SumPixels(frame)

====
